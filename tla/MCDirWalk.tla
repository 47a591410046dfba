----------------------------- MODULE MCDirWalk -----------------------------
(* A directory a with a file w that lstat does not find, a file x and a directory y
   that holds the directory z, which is one too deep for four descriptors; beside it a
   link and a directory that may not be opened. *)
EXTENDS DirWalk

MCNodes == {"a", "w", "x", "y", "z", "link", "secret", "hidden"}

MCUp == [n \in MCNodes |->
           CASE n \in {"w", "x", "y"} -> "a" [] n = "z" -> "y" [] n = "hidden" -> "secret" [] OTHER -> Root]

MCKind == [n \in MCNodes |->
             CASE n \in {"a", "y", "z", "secret"} -> "d" [] n = "link" -> "l" [] OTHER -> "f"]

MCRank == [n \in MCNodes |->
             CASE n = "a" -> 0 [] n = "link" -> 1 [] n = "secret" -> 2 [] n = "hidden" -> 3
               [] n = "w" -> 4 [] n = "x" -> 5
               [] n = "y" -> 6 [] n = "z" -> 7]

MCOptions == {{}, {"s"}, {"f", "s"}, {"d", "l"}}

=============================================================================
