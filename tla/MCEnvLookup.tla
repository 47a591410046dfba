---------------------------- MODULE MCEnvLookup ----------------------------
(* Three variables.  CHILD_PATH has PATH inside its name; the value of HOME may
   mention PATH, or hold a line that looks like the entry of PATH; the value of
   PATH may mention itself. *)
EXTENDS EnvLookup

MCNames == {"CHILD_PATH", "HOME", "PATH"}

Entry(name, says, eq, line) ==
  [name |-> name, says |-> says, eq |-> eq, line |-> line, value |-> "own"]

ChildPath == Entry("CHILD_PATH", {"PATH"}, {"PATH"}, {})
Home == Entry("HOME", {}, {}, {})
HomeSays == Entry("HOME", {"PATH"}, {}, {})
HomeLine == Entry("HOME", {"PATH"}, {"PATH"}, {"PATH"})
Path1 == Entry("PATH", {}, {}, {})
PathSelf == Entry("PATH", {"PATH"}, {"PATH"}, {})

MCEnvironments ==
  {<<ChildPath, Home, Path1>>, <<ChildPath, HomeLine, Path1>>, <<ChildPath, HomeSays, PathSelf>>,
   <<Home, Path1>>, <<ChildPath>>, <<ChildPath, HomeLine>>, <<ChildPath, Home>>}

MCFiles ==
  {<<>>, <<"HOME", "PATH">>, <<"PATH", "HOME">>, <<"PATH", "CHILD_PATH", "HOME">>,
   <<"CHILD_PATH", "PATH">>}

=============================================================================
