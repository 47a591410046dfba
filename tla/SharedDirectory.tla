-------------------------- MODULE SharedDirectory --------------------------
(***************************************************************************)
(* Lab8/server.c: one thread for each client, and one current directory    *)
(* and one base_dir for all of them.  CD changes the directory of the      *)
(* process; prompts, LIST and the next CD go by it.  The tree of           *)
(* directories does not change.  What travels between client and server is *)
(* in LineProtocol.                                                        *)
(***************************************************************************)
EXTENDS Integers, FiniteSets

CONSTANTS
  Clients,
  BaseArg,       \* how the base directory is given to the server
  Directories, Root,
  Inside,        \* Root and all that lies below it
  Beneath,       \* for what base_dir may hold: the directories whose path begins so
  Nameless,      \* directories whose path is too long for getcwd's 256 bytes
  Paths, Leads,  \* the arguments of CD, and where they lead from each directory
  MaxRequests    \* bound: commands of each client

Dot == "."
FullPath == "full path"
OtherPath == "other path"     \* relative, with a link in it or a slash behind it
Torn == "half copied"
Nowhere == "nowhere"
Up == ".."

ASSUME SharedDirectoryAssumption ==
  /\ BaseArg \in {Dot, FullPath, OtherPath}
  /\ Root \in Inside /\ Inside \subseteq Directories /\ Nameless \subseteq Directories
  /\ {Dot, OtherPath, Torn, Nowhere} \cap Directories = {}
  /\ DOMAIN Beneath = Directories \cup {OtherPath} /\ Inside \subseteq Beneath[Root]
  /\ Up \in Paths /\ Leads \in [Directories -> [Paths -> Directories \cup {Nowhere}]]
  /\ \A d \in Inside \ {Root} : Leads[d][Up] \in Inside \cup {Nowhere}
  /\ MaxRequests \in Nat

VARIABLES
  cwd,           \* the current directory of the process
  base_dir,
  pc,            \* per thread
  here,          \* per thread: what getcwd returned last
  new_dir,       \* per thread: the argument of CD
  prompted,      \* per thread: the client has been sent a prompt for its next command
  seen,          \* history, per thread: base_dir when it was last compared with here
  requests       \* bound: commands of each client

directoryVars == <<cwd, base_dir, pc, here, new_dir, prompted, seen, requests>>

PCs == {"none", "test", "copy", "copying", "look", "prompt", "read", "check", "chdir", "gone"}

\* main: chdir(base_dir), before anybody is let in.
DirectoryInit ==
  /\ cwd = Root
  /\ base_dir = IF BaseArg = FullPath THEN Root ELSE BaseArg
  /\ pc = [c \in Clients |-> "none"]
  /\ here = [c \in Clients |-> Root]
  /\ new_dir = [c \in Clients |-> Up]
  /\ prompted = [c \in Clients |-> FALSE]
  /\ seen = [c \in Clients |-> Root]
  /\ requests = [c \in Clients |-> 0]

Goto(c, from, to) == pc[c] = from /\ pc' = [pc EXCEPT ![c] = to]

\* getcwd, and where the thread goes when it succeeds and when it fails.
GetCwd(c, from, to, otherwise) ==
  /\ Goto(c, from, IF cwd \in Nameless THEN otherwise ELSE to)
  /\ here' = [here EXCEPT ![c] = cwd]

\* strcmp of here with base_dir; half of a path may be the path of another directory.
IsBase(d) == IF base_dir = Torn THEN BOOLEAN ELSE {d = base_dir}

\* Whether here begins with base_dir, as it does when the two are equal.
BeginsWithBase(d) == IF base_dir = Torn THEN BOOLEAN ELSE {d \in Beneath[base_dir]}

-----------------------------------------------------------------------------
Accept(c) ==
  /\ GetCwd(c, "none", "test", "gone")
  /\ UNCHANGED <<cwd, base_dir, new_dir, prompted, seen, requests>>

\* Faulty variant: base_dir is set by every client.
TestBaseAlways(c) ==
  /\ Goto(c, "test", "copy")
  /\ UNCHANGED <<cwd, base_dir, here, new_dir, prompted, seen, requests>>

TestBase(c) ==
  /\ Goto(c, "test", IF base_dir = Dot THEN "copy" ELSE "look")
  /\ UNCHANGED <<cwd, base_dir, here, new_dir, prompted, seen, requests>>

\* strncpy: until it has ended, others find part of the path, unless it is there already.
CopyBegin(c) ==
  /\ Goto(c, "copy", "copying")
  /\ base_dir' = IF base_dir = here[c] THEN base_dir ELSE Torn
  /\ UNCHANGED <<cwd, here, new_dir, prompted, seen, requests>>

\* Faulty variant: the directory is asked for only when it is copied.
CopyEndOfCwd(c) ==
  /\ Goto(c, "copying", "look")
  /\ base_dir' = cwd
  /\ UNCHANGED <<cwd, here, new_dir, prompted, seen, requests>>

CopyEnd(c) ==
  /\ Goto(c, "copying", "look")
  /\ base_dir' = here[c]
  /\ UNCHANGED <<cwd, here, new_dir, prompted, seen, requests>>

Look(c) ==
  /\ GetCwd(c, "look", "prompt", "gone")
  /\ UNCHANGED <<cwd, base_dir, new_dir, prompted, seen, requests>>

\* Only a directory whose path begins with base_dir has a prompt.
ShowPrompt(c) ==
  /\ Goto(c, "prompt", "read")
  /\ \E begins \in BeginsWithBase(here[c]) : prompted' = [prompted EXCEPT ![c] = begins]
  /\ seen' = [seen EXCEPT ![c] = base_dir]
  /\ UNCHANGED <<cwd, base_dir, here, new_dir, requests>>

\* read does not ask whether there was a prompt.
Reads(c) ==
  /\ pc[c] = "read" /\ requests[c] < MaxRequests
  /\ requests' = [requests EXCEPT ![c] = @ + 1]

Cd(c, path) ==
  /\ Reads(c) /\ GetCwd(c, "read", "check", "look")
  /\ new_dir' = [new_dir EXCEPT ![c] = path]
  /\ UNCHANGED <<cwd, base_dir, prompted, seen>>

\* Faulty variant: ".." is not looked at.
CheckNothing(c) ==
  /\ Goto(c, "check", "chdir")
  /\ seen' = [seen EXCEPT ![c] = base_dir]
  /\ UNCHANGED <<cwd, base_dir, here, new_dir, prompted, requests>>

\* "..", and no other path, is refused in base_dir.
Check(c) ==
  /\ \E same \in IsBase(here[c]) :
       Goto(c, "check", IF same /\ new_dir[c] = Up THEN "look" ELSE "chdir")
  /\ seen' = [seen EXCEPT ![c] = base_dir]
  /\ UNCHANGED <<cwd, base_dir, here, new_dir, prompted, requests>>

\* chdir goes by the directory the process is in by now; it may fail.
Chdir(c) ==
  /\ Goto(c, "chdir", "look")
  /\ cwd' = IF Leads[cwd][new_dir[c]] = Nowhere THEN cwd ELSE Leads[cwd][new_dir[c]]
  /\ UNCHANGED <<base_dir, here, new_dir, prompted, seen, requests>>

\* ECHO, INFO, LIST and what the server does not understand change nothing here.
OtherCommand(c) ==
  /\ Reads(c) /\ Goto(c, "read", "look")
  /\ UNCHANGED <<cwd, base_dir, here, new_dir, prompted, seen>>

Quit(c) ==
  /\ Reads(c) /\ Goto(c, "read", "gone")
  /\ UNCHANGED <<cwd, base_dir, here, new_dir, prompted, seen>>

-----------------------------------------------------------------------------
Thread(c) ==
  \/ Accept(c) \/ TestBase(c) \/ CopyBegin(c) \/ CopyEnd(c) \/ Look(c) \/ ShowPrompt(c)
  \/ Check(c) \/ Chdir(c) \/ OtherCommand(c) \/ Quit(c)
  \/ \E path \in Paths : Cd(c, path)

DirectoryNext == \E c \in Clients : Thread(c)

DirectorySpec == DirectoryInit /\ [][DirectoryNext]_directoryVars

-----------------------------------------------------------------------------
DirectoryTypeOK ==
  /\ cwd \in Directories /\ base_dir \in Directories \cup {Dot, Torn, OtherPath}
  /\ pc \in [Clients -> PCs] /\ here \in [Clients -> Directories]
  /\ new_dir \in [Clients -> Paths] /\ prompted \in [Clients -> BOOLEAN]
  /\ seen \in [Clients -> Directories \cup {Torn, OtherPath}]
  /\ requests \in [Clients -> 0..MaxRequests]

Copies(c) == pc[c] \in {"copy", "copying"}
Served(c) == pc[c] \notin {"none", "test", "copy", "copying", "gone"}

(***************************************************************************)
(* base_dir goes from "." to the directory the server was started in, and  *)
(* to no other, although any thread that finds "." there may write it      *)
(* late, while others have moved the process: those that write it have     *)
(* asked for their directory before anybody could move.  It is half copied *)
(* only while somebody copies it, and never "." for a client that is       *)
(* served.                                                                 *)
(***************************************************************************)
DirectoryInvariant ==
  /\ DirectoryTypeOK
  /\ base_dir \in CASE BaseArg = Dot -> {Dot, Torn, Root}
                    [] BaseArg = FullPath -> {Root}
                    [] OTHER -> {OtherPath}
  /\ base_dir = Torn => \E c \in Clients : pc[c] = "copying"
  /\ \A c \in Clients : Copies(c) => here[c] = Root
  /\ base_dir = Dot => cwd = Root /\ \A c \in Clients : ~Served(c)

LeavesBase == cwd \in Inside /\ cwd' \notin Inside
MayLeave(c) ==
  /\ pc[c] = "chdir" /\ pc'[c] = "look"
  /\ new_dir[c] # Up \/ here[c] # cwd \/ seen[c] # Root

(***************************************************************************)
(* "ERROR: Already at root directory": ".." takes nobody out of the base   *)
(* directory, unless another client moved the process between the check    *)
(* and the chdir, or base_dir was half copied at the check.  Every other   *)
(* path may lead out of it.                                                *)
(***************************************************************************)
UpStopsAtRoot == [][LeavesBase => \E c \in Clients : MayLeave(c)]_directoryVars

(***************************************************************************)
(* Wherever the process has been moved, and however late base_dir was      *)
(* written: a client has its prompt when the thread found itself inside    *)
(* the base directory, unless base_dir was half copied at that moment or   *)
(* is not the full path.                                                   *)
(***************************************************************************)
InsideIsPrompted ==
  \A c \in Clients : pc[c] = "read" /\ here[c] \in Inside /\ seen[c] \notin {Torn, OtherPath}
                       => prompted[c]

-----------------------------------------------------------------------------
(* What texts of the repository promise, and the server does not keep. *)

\* "Already at root directory": nobody leaves the base directory.
StaysBelowRoot == cwd \in Inside

\* "<base_directory>: the base directory the server will use", however it is named.
EveryoneIsPrompted == \A c \in Clients : pc[c] = "read" => prompted[c]

=============================================================================
