----------------------------- MODULE MCPathNames -----------------------------
(* PathNames for the names that can be put together from a folder's name     *)
(* that is one or two characters long, "/", ".." and another character.      *)
EXTENDS PathNames

CONSTANT MaxPieces

Pieces == {<<"m">>, <<"s">>, <<"/">>, <<"/", ".", ".">>}
MCNames == {FlattenSeq(p) : p \in BoundedSeq(Pieces, MaxPieces)}

\* An alias may contain the mounted folder's name, or be shorter.
MCMounts == {<<<<"m">>, <<"s">>>>, <<<<"m">>, <<"s", "/", "m">>>>, <<<<"m", "m">>, <<"m">>>>,
             <<<<"m", "/", "m">>, <<"s", "m">>>>}

MCUpDir == <<"/", ".", ".", "/">>
MCSlash == <<"/">>
MCChar  == {"m", "s", "/", "."}

=============================================================================
