------------------------- MODULE MCSharedDirectory -------------------------
(***************************************************************************)
(* A small tree for TLC: / with /srv, the base directory, and /srv2, whose *)
(* path begins like it; /srv has the subdirectory a, and that one has a    *)
(* subdirectory deep, whose path is too long.                              *)
(***************************************************************************)
EXTENDS SharedDirectory, TLC

Tree == {"top", "srv", "srv2", "a", "deep"}
BelowSrv == {"srv", "a", "deep"}
PathsBeginLike ==
  [top |-> Tree, srv |-> BelowSrv \cup {"srv2"}, srv2 |-> {"srv2"}, a |-> {"a", "deep"},
   deep |-> {"deep"}] @@ (OtherPath :> {})

\* By name, through the root of the file system, and more than one step up.
Arguments == {Up, "down", "/", "../srv2"}
ParentInTree == [top |-> "top", srv |-> "top", srv2 |-> "top", a |-> "srv", deep |-> "a"]
LeadsInTree ==
  [d \in Tree |->
     (Up :> ParentInTree[d])
     @@ ("down" :> CASE d = "top" -> "srv" [] d = "srv" -> "a" [] d = "a" -> "deep"
                     [] OTHER -> Nowhere)
     @@ ("/" :> "top")
     @@ ("../srv2" :> IF ParentInTree[d] = "top" THEN "srv2" ELSE Nowhere)]

\* No client differs from another.
ClientSymmetry == Permutations(Clients)
=============================================================================
