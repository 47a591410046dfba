---------------------------- MODULE LineProtocol ----------------------------
(***************************************************************************)
(* Lab8: one client and its thread of the server over a TCP connection.    *)
(* Both sides write messages and read bytes: one read may return several   *)
(* messages, and both sides look at the first of them only.                *)
(***************************************************************************)
EXTENDS Integers, Sequences, FiniteSets, SequencesExt

CONSTANTS
  MaxMerged,     \* bound: messages that one read may return
  MaxCommands,   \* bound: commands the user gives
  BatchSizes,    \* the number of lines of the files given with '@'
  Failures       \* what may go wrong

(***************************************************************************)
(*  "prompt": the working directory is neither base_dir nor below it       *)
(*  "name":   getcwd fails; CD is not answered, a thread ends for good     *)
(*  "list":   opendir fails; LIST sends no entries and no DONE             *)
(*  "info":   the file that INFO sends is not there; the server exits      *)
(*  "server": another client brings the server down                        *)
(*  "client": the client is killed                                         *)
(***************************************************************************)
ASSUME LineProtocolAssumption ==
  /\ MaxMerged \in Nat \ {0} /\ MaxCommands \in Nat
  /\ BatchSizes \subseteq Nat
  /\ Failures \subseteq {"prompt", "name", "list", "info", "server", "client"}

Keys == {"ECHO", "INFO", "QUIT", "LIST", "CD", "other"}
Entries == 2                 \* bound: entries of the directory LIST shows

\* What travels: commands with their number, and what the server writes.
Message(kind, nr) == [kind |-> kind, nr |-> nr]

VARIABLES
  toServer, toClient,        \* the bytes under way, message by message
  server,                    \* the thread: hello, prompt, read, reply, list, closed, ended
  serving, left,             \* the command it carries out, entries it has yet to send
  alive,                     \* the server process
  client,                    \* hello, prompt, input, batch, reply, list, closed, gone
  sent,                      \* commands sent
  lines,                     \* lines of the file still to be sent
  reset,                     \* the connection is reset: the next write raises SIGPIPE
  answer,                    \* history: what handle_response took for the reply
  behind,                    \* history: a file of several lines has been sent
  lapses                     \* history: what has not been written, or not been read

serverVars == <<server, serving, left, alive>>
clientVars == <<client, sent, lines, answer, behind>>
vars == <<toServer, toClient, serverVars, clientVars, reset, lapses>>

Nothing == Message("nothing", 0)

Init ==
  /\ toServer = <<>> /\ toClient = <<>>
  /\ server = "hello" /\ serving = Nothing /\ left = 0 /\ alive = TRUE
  /\ client = "hello" /\ sent = 0 /\ lines = 0 /\ answer = Nothing
  /\ behind = FALSE
  /\ reset = FALSE /\ lapses = {}

Here == client # "gone"
Closed == ~alive \/ server = "closed"

\* read: everything that lies there, or as much of it as the network has brought.
\* Only the first message is looked at.
Counts(bytes) == {k \in 1..MaxMerged : k <= Len(bytes)}
After(bytes, k) == SubSeq(bytes, k + 1, Len(bytes))
Merge(k) == lapses' = IF k > 1 THEN lapses \cup {"merged"} ELSE lapses

May(failure) == failure \in Failures
Lapse(failure) == May(failure) /\ lapses' = lapses \cup {failure}

-----------------------------------------------------------------------------
(* The server's thread. *)

\* write: to a client that is gone it is lost, and once the connection is reset
\* SIGPIPE ends the server.
Write(msgs) ==
  /\ alive' = ~reset
  /\ toClient' = IF Here THEN toClient \o msgs ELSE toClient

\* The process ends; what the client has not read is lost if the server had not read all.
ServerDown == alive' = FALSE /\ toClient' \in {toClient, <<>>}

\* The thread returns without closing the connection.
ThreadReturns ==
  /\ Lapse("name")
  /\ server' = "ended"
  /\ UNCHANGED <<toClient, alive>>

Hello ==
  /\ alive /\ server = "hello"
  /\ \/ Write(<<Message("Hello", 0)>>) /\ server' = "prompt" /\ UNCHANGED lapses
     \/ ThreadReturns
  /\ UNCHANGED <<toServer, serving, left, clientVars, reset>>

\* No prompt outside of base_dir; the thread reads all the same.
Prompt ==
  /\ alive /\ server = "prompt"
  /\ \/ Write(<<Message("prompt", 0)>>) /\ server' = "read" /\ UNCHANGED lapses
     \/ Lapse("prompt") /\ server' = "read" /\ UNCHANGED <<toClient, alive>>
     \/ ThreadReturns
  /\ UNCHANGED <<toServer, serving, left, clientVars, reset>>

\* Only the first of the commands one read returns is carried out.
ReadCommand ==
  /\ alive /\ server = "read"
  /\ \E k \in Counts(toServer) :
       /\ serving' = Head(toServer)
       /\ toServer' = After(toServer, k)
       /\ Merge(k)
  /\ server' = "reply"
  /\ UNCHANGED <<toClient, left, alive, clientVars, reset>>

\* The end of the connection, or an error: an empty buffer, in which there is no command.
ReadNothing ==
  /\ alive /\ server = "read" /\ ~Here /\ toServer = <<>>
  /\ server' = "prompt"
  /\ UNCHANGED <<toServer, toClient, serving, left, alive, clientVars, reset, lapses>>

\* Faulty variant: a CD that is refused is not answered.
ReplySilent ==
  /\ alive /\ server = "reply" /\ serving.kind \in {"ECHO", "CD", "other"}
  /\ Write(IF serving.kind = "CD" THEN <<>> ELSE <<Message("text", serving.nr)>>)
  /\ server' = "prompt"
  /\ UNCHANGED <<toServer, serving, left, clientVars, reset, lapses>>

\* A CD that cannot tell where it is gives no answer.
Reply ==
  /\ alive /\ server = "reply" /\ serving.kind \in {"ECHO", "CD", "other"}
  /\ \/ Write(<<Message("text", serving.nr)>>) /\ UNCHANGED lapses
     \/ serving.kind = "CD" /\ Lapse("name") /\ UNCHANGED <<toClient, alive>>
  /\ server' = "prompt"
  /\ UNCHANGED <<toServer, serving, left, clientVars, reset>>

\* exit(1) when the file is not there.
ReplyInfo ==
  /\ alive /\ server = "reply" /\ serving.kind = "INFO"
  /\ Write(<<Message("text", serving.nr)>>) \/ (May("info") /\ ServerDown)
  /\ server' = "prompt"
  /\ UNCHANGED <<toServer, serving, left, clientVars, reset, lapses>>

ReplyQuit ==
  /\ alive /\ server = "reply" /\ serving.kind = "QUIT"
  /\ Write(<<Message("BYE", serving.nr)>>)
  /\ server' = "closed"
  /\ UNCHANGED <<toServer, serving, left, clientVars, reset, lapses>>

ReplyList ==
  /\ alive /\ server = "reply" /\ serving.kind = "LIST"
  /\ Write(<<Message("LIST", serving.nr)>>)
  /\ \/ server' = "list" /\ left' \in 0..Entries /\ UNCHANGED lapses
     \/ server' = "prompt" /\ Lapse("list") /\ UNCHANGED left
  /\ UNCHANGED <<toServer, serving, clientVars, reset>>

ListEntry ==
  /\ alive /\ server = "list" /\ left > 0
  /\ Write(<<Message("entry", serving.nr)>>)
  /\ left' = left - 1
  /\ UNCHANGED <<toServer, server, serving, clientVars, reset, lapses>>

\* Faulty variant: no DONE after the last entry.
ListDoneSilent ==
  /\ alive /\ server = "list" /\ left = 0
  /\ server' = "prompt"
  /\ UNCHANGED <<toServer, toClient, alive, serving, left, clientVars, reset, lapses>>

ListDone ==
  /\ alive /\ server = "list" /\ left = 0
  /\ Write(<<Message("DONE", serving.nr)>>)
  /\ server' = "prompt"
  /\ UNCHANGED <<toServer, serving, left, clientVars, reset, lapses>>

\* The write of another client's thread, or its INFO, ends the whole process.
ServerEnds ==
  /\ alive /\ May("server")
  /\ ServerDown
  /\ UNCHANGED <<toServer, server, serving, left, clientVars, reset, lapses>>

-----------------------------------------------------------------------------
(* The client. *)

ReadThen(from, to) ==
  /\ client = from
  /\ \E k \in Counts(toClient) : toClient' = After(toClient, k) /\ Merge(k)
  /\ client' = to
  /\ UNCHANGED <<toServer, serverVars, sent, lines, answer, behind, reset>>

ReadHello == ReadThen("hello", "prompt")

ReadPrompt == ReadThen("prompt", "input")

\* Into a closed connection it is lost, or SIGPIPE ends the client.
Send(key) ==
  /\ sent < MaxCommands
  /\ toServer' = IF Closed THEN toServer ELSE Append(toServer, Message(key, sent + 1))
  /\ sent' = sent + 1
  /\ client' \in IF Closed THEN {"reply", "gone"} ELSE {"reply"}
  /\ UNCHANGED <<toClient, serverVars, answer, behind, reset, lapses>>

Command(key) ==
  /\ client = "input"
  /\ Send(key)
  /\ UNCHANGED lines

\* '@file': its lines are sent one after the other, with no prompt read in between.
Batch(n) ==
  /\ client = "input" /\ sent + n <= MaxCommands
  /\ lines' = n
  /\ behind' = (behind \/ n > 1)
  /\ client' = IF n = 0 THEN "prompt" ELSE "batch"
  /\ lapses' = IF n = 0 THEN lapses \cup {"empty file"} ELSE lapses
  /\ UNCHANGED <<toServer, toClient, serverVars, sent, answer, reset>>

BatchLine(key) ==
  /\ client = "batch" /\ lines > 0
  /\ Send(key)
  /\ lines' = lines - 1

\* Faulty variant: the prompt that follows a reply is not read.
AfterReplyNoPrompt == IF lines > 0 THEN "batch" ELSE "input"

AfterReply == IF lines > 0 THEN "batch" ELSE "prompt"

\* handle_response: BYE! closes the connection, LIST begins a list.
ReadReply ==
  /\ client = "reply"
  /\ \E k \in Counts(toClient) : toClient' = After(toClient, k) /\ Merge(k)
  /\ answer' = Head(toClient)
  /\ client' = CASE Head(toClient).kind = "BYE" -> "closed"
                 [] Head(toClient).kind = "LIST" -> "list"
                 [] OTHER -> AfterReply
  /\ UNCHANGED <<toServer, serverVars, sent, lines, behind, reset>>

ReadList ==
  /\ client = "list"
  /\ \E k \in Counts(toClient) : toClient' = After(toClient, k) /\ Merge(k)
  /\ client' = IF Head(toClient).kind = "DONE" THEN AfterReply ELSE "list"
  /\ UNCHANGED <<toServer, serverVars, sent, lines, answer, behind, reset>>

\* read returns 0 once the server has closed: an empty buffer is not BYE!, and a list
\* goes on for ever.
ReadEnd ==
  /\ client \in {"hello", "prompt", "reply"} /\ Closed /\ toClient = <<>>
  /\ client' = CASE client = "hello" -> "prompt"
                 [] client = "prompt" -> "input"
                 [] OTHER -> AfterReply
  /\ answer' = IF client = "reply" THEN Nothing ELSE answer
  /\ UNCHANGED <<toServer, toClient, serverVars, sent, lines, behind, reset, lapses>>

\* The client process is killed; what it has not read is lost.
Vanish ==
  /\ May("client") /\ client \notin {"closed", "gone"}
  /\ client' = "gone" /\ toClient' = <<>>
  /\ UNCHANGED <<toServer, serverVars, sent, lines, answer, behind, reset, lapses>>

\* Its system answers what still arrives with a reset.
Reset ==
  /\ client = "gone" /\ ~reset /\ server # "closed"
  /\ reset' = TRUE
  /\ UNCHANGED <<toServer, toClient, serverVars, clientVars, lapses>>

-----------------------------------------------------------------------------
ServerStep ==
  \/ Hello \/ Prompt \/ ReadCommand \/ ReadNothing \/ Reply \/ ReplyInfo \/ ReplyQuit
  \/ ReplyList \/ ListEntry \/ ListDone

ClientReads == ReadHello \/ ReadPrompt \/ ReadReply \/ ReadList \/ ReadEnd

ClientStep ==
  \/ ClientReads
  \/ \E key \in Keys : Command(key) \/ BatchLine(key)
  \/ \E n \in BatchSizes : Batch(n)

Next == ServerStep \/ ServerEnds \/ ClientStep \/ Vanish \/ Reset

Spec == Init /\ [][Next]_vars

\* Both processes get their turns; the user may stop giving commands.
FairSpec == Spec /\ WF_vars(ServerStep) /\ WF_vars(ClientReads)

-----------------------------------------------------------------------------
TypeOK ==
  /\ \A i \in DOMAIN toServer : toServer[i].kind \in Keys
  /\ \A i \in DOMAIN toClient : toClient[i].kind \notin Keys \ {"LIST"}
  /\ server \in {"hello", "prompt", "read", "reply", "list", "closed", "ended"}
  /\ client \in {"hello", "prompt", "input", "batch", "reply", "list", "closed", "gone"}
  /\ left \in 0..Entries /\ sent \in 0..MaxCommands /\ lines \in 0..MaxCommands
  /\ alive \in BOOLEAN /\ reset \in BOOLEAN
  /\ lapses \subseteq {"prompt", "name", "list", "merged", "empty file"}

(***************************************************************************)
(* The client waits for a server that runs but will not write before it    *)
(* has read something, of which nothing is under way, or whose thread has  *)
(* ended.                                                                  *)
(***************************************************************************)
Waits == ~Closed /\ client \in {"hello", "prompt", "reply", "list"} /\ toClient = <<>>
NoMutualWait == ~(Waits /\ (server = "ended" \/ (server = "read" /\ toServer = <<>>)))

(***************************************************************************)
(* What travels between the two, and that one of them has something to do, *)
(* also when a file has put the client behind the prompts: as long as no   *)
(* prompt and no DONE was left out, no CD unanswered, no message thrown    *)
(* away with the one before it, and no empty file sent.                    *)
(***************************************************************************)
ConnectionInvariant == TypeOK /\ (lapses = {} => NoMutualWait)

(***************************************************************************)
(* What the client takes for the reply to a command answers that command,  *)
(* or is the empty buffer that the end of the server leaves; until a file  *)
(* of several lines puts it out of step with the prompts, or a CD that     *)
(* cannot tell where it is gives no answer.                                *)
(***************************************************************************)
ReplyIsToCommand ==
  /\ ~behind /\ "name" \notin lapses
  /\ client \in {"prompt", "list", "closed"} /\ sent > 0
  => answer.nr = sent \/ (~alive /\ answer = Nothing)

(***************************************************************************)
(* Nobody waits for ever: the client is asked for a command, gets a reply, *)
(* and comes to the end of a list, also when a file has put it out of step *)
(* with the server's prompts.  It may wait for ever after one of the       *)
(* lapses above, and in a list also when the server has gone: then it      *)
(* reads the end of the connection for ever.                               *)
(***************************************************************************)
ClientGoesOn ==
  /\ client = "prompt" ~> client # "prompt" \/ lapses # {}
  /\ client = "reply" ~> client # "reply" \/ lapses # {}
  /\ client = "list" ~> client # "list" \/ ~alive \/ lapses # {}

=============================================================================
