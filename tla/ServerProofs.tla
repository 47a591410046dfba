---------------------------- MODULE ServerProofs ----------------------------
(***************************************************************************)
(* Proofs about Lab8.  The dialogue of a client and its thread of the      *)
(* server, for any number of commands, any files and any failures: when    *)
(* the two cannot wait for each other, and when a reply answers the        *)
(* command just sent.  And the directory that all threads share, for any   *)
(* tree and any number of clients: what base_dir becomes, who is prompted, *)
(* and how the base directory can be left.                                 *)
(***************************************************************************)
EXTENDS LineProtocol, SharedDirectory, FiniteSetTheorems, SequenceTheorems, TLAPS

-----------------------------------------------------------------------------
(* The dialogue. *)

Words == [kind : Keys, nr : Nat]
Texts == [kind : {"Hello", "prompt", "text", "BYE", "LIST", "entry", "DONE"}, nr : Nat]

TypeStrengthened ==
  /\ TypeOK /\ toServer \in Seq(Words) /\ toClient \in Seq(Texts)
  /\ serving \in Words \cup {Nothing} /\ behind \in BOOLEAN
  /\ client # "gone" => ~reset
  /\ server = "ended" => "name" \in lapses

-----------------------------------------------------------------------------
(* Everybody who waits will be served: supply and demand. *)

\* Where i comes from, the next text belongs to a list.
WithinList(i) ==
  IF i = 0 THEN client = "list" ELSE toClient[i].kind \in {"LIST", "entry"}

\* Nothing is left out so far, and both are there.
OnCourse == client # "gone" /\ ~Closed /\ lapses = {}

\* A list that has begun goes on, up to its DONE.
ListsGoOn ==
  OnCourse => \A i \in 0..Len(toClient) : WithinList(i) =>
    IF i = Len(toClient) THEN server = "list"
    ELSE toClient[i + 1].kind \in {"entry", "DONE"}

\* The texts that end a wait: the rest of a list does so only with its DONE.
Weighs(m) == m.kind \notin {"LIST", "entry"}
Weight(texts) == Cardinality({i \in 1..Len(texts) : Weighs(texts[i])})

\* What the server has still to write before it reads the next command.
Promised ==
  CASE server \in {"hello", "reply", "list"} -> 2
    [] server = "prompt" -> 1
    [] OTHER -> 0

Supply == Weight(toClient) + 2 * Len(toServer) + Promised

\* What the client has still to read before it is its turn to write.
Demand ==
  CASE client = "hello" -> 2
    [] client = "prompt" -> 1
    [] client \in {"reply", "list"} -> IF lines > 0 THEN 1 ELSE 2
    [] OTHER -> 0

EnoughIsOnTheWay == OnCourse => Supply >= Demand

ConnectionStrengthened == TypeStrengthened /\ ListsGoOn /\ EnoughIsOnTheWay

-----------------------------------------------------------------------------
(* One question, one answer: client and server in step. *)

\* From the place i on: after the DONE of the list there is at most a prompt.
ListFrom(i) ==
  \A j \in i..Len(toClient) : toClient[j].kind = "DONE" =>
    \/ server = "prompt" /\ j = Len(toClient)
    \/ server = "read" /\ j >= Len(toClient) - 1

DoneIsLate(i) ==
  \A j \in i..Len(toClient) : toClient[j].kind = "DONE" => j >= Len(toClient) - 1

\* The command is on its way, or in the server's hands.
Asked ==
  \/ /\ server = "read" /\ toClient = <<>>
     /\ Len(toServer) = 1 /\ toServer[1].nr = sent
  \/ server = "reply" /\ toClient = <<>> /\ toServer = <<>> /\ serving.nr = sent

\* The reply is on its way, and what follows it fits the kind of its first line.
Answered ==
  /\ toServer = <<>> /\ serving.nr = sent /\ toClient # <<>> /\ toClient[1].nr = sent
  /\ \/ toClient[1].kind = "BYE" /\ server = "closed"
     \/ toClient[1].kind = "text" /\ server = "prompt" /\ Len(toClient) = 1
     \/ toClient[1].kind = "text" /\ server = "read" /\ Len(toClient) \in 1..2
     \/ toClient[1].kind = "LIST" /\ server \in {"list", "prompt", "read"} /\ ListFrom(2)

Greeted ==
  \/ server = "hello" /\ toClient = <<>>
  \/ server = "prompt" /\ Len(toClient) = 1
  \/ server = "read" /\ Len(toClient) \in 1..2

PromptFollows ==
  \/ server = "prompt" /\ toClient = <<>>
  \/ server = "read" /\ Len(toClient) <= 1

InStep ==
  /\ client \in {"hello", "prompt", "input", "batch", "list"} => toServer = <<>>
  /\ client = "hello" => sent = 0 /\ Greeted
  /\ client = "prompt" => PromptFollows
  /\ client \in {"input", "batch"} => server = "read" /\ toClient = <<>>
  /\ client = "reply" => Asked \/ Answered
  /\ client = "list" => /\ server \in {"list", "prompt", "read"} /\ ListFrom(1)
                        /\ serving.nr = sent
  /\ lines = IF client = "batch" THEN 1 ELSE 0
  /\ client \in {"prompt", "input", "list", "closed"} /\ sent > 0 => answer.nr = sent

\* What a server that has gone leaves: the rest of the conversation, or nothing.
Left ==
  /\ client = "hello" => sent = 0 /\ Len(toClient) <= 2
  /\ client = "prompt" => Len(toClient) <= 1
  /\ client \in {"input", "batch"} => toClient = <<>>
  /\ client = "reply" =>
       \/ toClient = <<>>
       \/ /\ toClient[1].nr = sent
          /\ \/ toClient[1].kind = "BYE"
             \/ toClient[1].kind = "text" /\ Len(toClient) <= 2
             \/ toClient[1].kind = "LIST" /\ DoneIsLate(2)
  /\ client = "list" => DoneIsLate(1)
  /\ lines = IF client = "batch" THEN 1 ELSE 0
  /\ client \in {"prompt", "input", "list", "closed"} /\ sent > 0 =>
       answer.nr = sent \/ answer = Nothing

OnTrack == ~behind /\ client # "gone" /\ "name" \notin lapses

ReplyStrengthened == TypeStrengthened /\ (OnTrack => IF alive THEN InStep ELSE Left)

-----------------------------------------------------------------------------
(* Reading and writing. *)

LEMMA AfterFacts ==
  ASSUME NEW S, NEW s \in Seq(S), NEW k \in Counts(s)
  PROVE  /\ k \in 1..Len(s) /\ Head(s) = s[1] /\ Head(s) \in S /\ s # <<>>
         /\ After(s, k) \in Seq(S) /\ Len(After(s, k)) = Len(s) - k
         /\ \A i \in 1..Len(s) - k : After(s, k)[i] = s[i + k]
<1>1. k \in 1..Len(s) /\ Len(s) \in Nat
  BY LineProtocolAssumption DEF LineProtocolAssumption, Counts
<1>2. k + 1 \in 1..Len(s) + 1 /\ Len(s) \in (k + 1) - 1..Len(s)
  BY <1>1
<1>3. s # <<>> /\ Head(s) = s[1] /\ s[1] \in S
  BY <1>1, EmptySeq, ElementOfSeq
<1>4. /\ SubSeq(s, k + 1, Len(s)) \in Seq(S)
      /\ Len(SubSeq(s, k + 1, Len(s))) = IF k + 1 <= Len(s) THEN Len(s) - (k + 1) + 1 ELSE 0
      /\ \A i \in 1..Len(s) - (k + 1) + 1 : SubSeq(s, k + 1, Len(s))[i] = s[k + 1 + i - 1]
  BY <1>2, SubSeqProperties
<1>5. \A i \in 1..Len(s) - k : k + 1 + i - 1 = i + k /\ i \in 1..Len(s) - (k + 1) + 1
  BY <1>1
<1> QED
  BY <1>1, <1>3, <1>4, <1>5 DEF After

LEMMA WriteFacts ==
  ASSUME TypeStrengthened, NEW m \in Texts, Write(<<m>>)
  PROVE  /\ toClient' \in Seq(Texts) /\ alive' = ~reset
         /\ client = "gone" => toClient' = toClient
         /\ client # "gone" =>
              /\ Len(toClient') = Len(toClient) + 1 /\ toClient'[Len(toClient) + 1] = m
              /\ \A i \in 1..Len(toClient) : toClient'[i] = toClient[i]
<1>1. toClient \in Seq(Texts) /\ Len(toClient) \in Nat
  BY DEF TypeStrengthened
<1>2. toClient \o <<m>> = Append(toClient, m)
  BY <1>1, AppendIsConcat
<1> QED
  BY <1>1, <1>2, AppendProperties DEF Write, Here

\* What the types say of single variables.
LEMMA TypeParts ==
  ASSUME TypeStrengthened
  PROVE  /\ toServer \in Seq(Words) /\ toClient \in Seq(Texts) /\ Len(toClient) \in Nat
         /\ (toClient = <<>> <=> Len(toClient) = 0)
         /\ serving.nr \in Nat /\ left \in 0..Entries /\ sent \in Nat /\ sent \in 0..MaxCommands
         /\ lines \in 0..MaxCommands /\ MaxCommands \in Nat
         /\ client # "gone" => ~reset
<1>1. /\ toServer \in Seq(Words) /\ toClient \in Seq(Texts) /\ serving \in Words \cup {Nothing}
      /\ left \in 0..Entries /\ sent \in 0..MaxCommands /\ lines \in 0..MaxCommands
      /\ client # "gone" => ~reset
  BY Zenon DEF TypeStrengthened, TypeOK
<1>2. MaxCommands \in Nat
  BY LineProtocolAssumption DEF LineProtocolAssumption
<1>3. serving.nr \in Nat
  BY ONLY <1>1 DEF Words, Nothing, Message
<1>4. sent \in Nat
  BY ONLY <1>1, <1>2
<1>5. Len(toClient) \in Nat /\ (toClient = <<>> <=> Len(toClient) = 0)
  BY ONLY <1>1, EmptySeq
<1> QED
  BY ONLY <1>1, <1>2, <1>3, <1>4, <1>5

\* The lines the server writes, with its places before and after.
Moves ==
  {<<"hello", "Hello", "prompt">>, <<"prompt", "prompt", "read">>,
   <<"reply", "text", "prompt">>, <<"reply", "BYE", "closed">>, <<"reply", "LIST", "list">>,
   <<"list", "entry", "list">>, <<"list", "DONE", "prompt">>}

LEMMA MoveCases ==
  ASSUME NEW a, NEW b, NEW c, <<a, b, c>> \in Moves
  PROVE  \/ a = "hello" /\ b = "Hello" /\ c = "prompt"
         \/ a = "prompt" /\ b = "prompt" /\ c = "read"
         \/ a = "reply" /\ b = "text" /\ c = "prompt"
         \/ a = "reply" /\ b = "BYE" /\ c = "closed"
         \/ a = "reply" /\ b = "LIST" /\ c = "list"
         \/ a = "list" /\ b = "entry" /\ c = "list"
         \/ a = "list" /\ b = "DONE" /\ c = "prompt"
  BY DEF Moves

Says(m) ==
  /\ alive /\ Write(<<m>>) /\ <<server, m.kind, server'>> \in Moves
  /\ server \in {"reply", "list"} => m.nr = serving.nr
  /\ UNCHANGED <<toServer, serving, clientVars, reset, lapses>> /\ left' \in 0..Entries

\* The server goes down, by itself or through another client.
GoesDown ==
  /\ alive /\ ServerDown /\ server' \in {server, "prompt"}
  /\ UNCHANGED <<toServer, serving, left, clientVars, reset, lapses>>

\* The thread writes nothing: no prompt, or nothing at all.
SaysNothing ==
  /\ alive /\ UNCHANGED <<toServer, toClient, serving, left, alive, clientVars, reset>>
  /\ \/ server = "prompt" /\ server' = "read" /\ lapses' = lapses \cup {"prompt"}
     \/ server' \in {"prompt", "ended"} /\ lapses' = lapses \cup {"name"}

\* LIST that cannot open the directory.
ListFails ==
  /\ alive /\ Write(<<Message("LIST", serving.nr)>>) /\ server = "reply" /\ server' = "prompt"
  /\ lapses' = lapses \cup {"list"}
  /\ UNCHANGED <<toServer, serving, left, clientVars, reset>>

LEMMA ServerCases ==
  ASSUME TypeStrengthened, ServerStep
  PROVE  \/ ReadCommand \/ ReadNothing \/ GoesDown \/ SaysNothing \/ ListFails
         \/ \E m \in Texts : Says(m)
<1>0. serving.nr \in Nat /\ left \in 0..Entries
  BY TypeParts
<1>1. \A kind, nr : Message(kind, nr).kind = kind /\ Message(kind, nr).nr = nr
  BY DEF Message
<1>2. \A kind \in {"Hello", "prompt", "text", "BYE", "LIST", "entry", "DONE"}, nr \in Nat :
        Message(kind, nr) \in Texts
  BY DEF Message, Texts
<1>3. CASE Hello
  <2>1. CASE ThreadReturns
    BY <1>3, <2>1 DEF Hello, ThreadReturns, Lapse, SaysNothing
  <2> QED
    BY <1>0, <1>1, <1>2, <1>3, <2>1 DEF Hello, Says, Moves
<1>4. CASE Prompt
  <2>1. CASE ThreadReturns
    BY <1>4, <2>1 DEF Prompt, ThreadReturns, Lapse, SaysNothing
  <2>2. CASE Lapse("prompt") /\ server' = "read" /\ UNCHANGED <<toClient, alive>>
    BY <1>4, <2>2 DEF Prompt, Lapse, SaysNothing
  <2> QED
    BY <1>0, <1>1, <1>2, <1>4, <2>1, <2>2 DEF Prompt, Says, Moves
<1>5. CASE Reply
  <2>1. CASE Lapse("name") /\ UNCHANGED <<toClient, alive>>
    BY <1>5, <2>1 DEF Reply, Lapse, SaysNothing
  <2> QED
    BY <1>0, <1>1, <1>2, <1>5, <2>1 DEF Reply, Says, Moves
<1>6. CASE ReplyInfo
  <2>1. CASE ServerDown
    BY <1>6, <2>1 DEF ReplyInfo, GoesDown
  <2> QED
    BY <1>0, <1>1, <1>2, <1>6, <2>1 DEF ReplyInfo, Says, Moves
<1>7. CASE ReplyQuit
  BY <1>0, <1>1, <1>2, <1>7 DEF ReplyQuit, Says, Moves
<1>8. CASE ReplyList
  <2>1. CASE Lapse("list")
    <3>1. CASE server' = "prompt"
      BY <1>8, <2>1, <3>1 DEF ReplyList, Lapse, ListFails
    <3> QED
      BY <1>0, <1>1, <1>2, <1>8, <2>1, <3>1 DEF ReplyList, Says, Moves
  <2> QED
    BY <1>0, <1>1, <1>2, <1>8, <2>1 DEF ReplyList, Says, Moves
<1>9. CASE ListEntry
  <2>1. left' \in 0..Entries
    BY <1>0, <1>9 DEF ListEntry, Entries
  <2> QED
    BY <1>0, <1>1, <1>2, <1>9, <2>1 DEF ListEntry, Says, Moves
<1>10. CASE ListDone
  BY <1>0, <1>1, <1>2, <1>10 DEF ListDone, Says, Moves
<1> QED
  BY <1>3, <1>4, <1>5, <1>6, <1>7, <1>8, <1>9, <1>10 DEF ServerStep

-----------------------------------------------------------------------------
(* Types. *)

LEMMA ByteKinds ==
  ASSUME NEW s \in Seq(Words), NEW t \in Seq(Texts)
  PROVE  /\ \A i \in DOMAIN s : s[i].kind \in Keys
         /\ \A i \in DOMAIN t : t[i].kind \notin Keys \ {"LIST"}
<1>1. DOMAIN s = 1..Len(s) /\ DOMAIN t = 1..Len(t)
  BY LenProperties
<1>2. ASSUME NEW i \in 1..Len(s) PROVE s[i].kind \in Keys
  <2>1. s[i] \in Words
    BY ElementOfSeq
  <2> QED
    BY <2>1 DEF Words
<1>3. ASSUME NEW i \in 1..Len(t) PROVE t[i].kind \notin Keys \ {"LIST"}
  <2>1. t[i] \in Texts
    BY ElementOfSeq
  <2> QED
    BY <2>1 DEF Texts, Keys
<1> QED
  BY <1>1, <1>2, <1>3

\* What a read of the client changes.
ClientTakes ==
  /\ \E k \in Counts(toClient) : toClient' = After(toClient, k) /\ Merge(k)
  /\ UNCHANGED <<toServer, serverVars, sent, lines, behind, reset>>

LEMMA SendFacts ==
  ASSUME TypeStrengthened, NEW key \in Keys, Send(key)
  PROVE  /\ toServer' \in Seq(Words) /\ sent' = sent + 1 /\ sent' \in 0..MaxCommands
         /\ ~Closed => /\ toServer' = Append(toServer, Message(key, sent + 1))
                       /\ client' = "reply"
         /\ client' \in {"reply", "gone"}
         /\ UNCHANGED <<toClient, serverVars, answer, behind, reset, lapses>>
<1>1. sent \in 0..MaxCommands /\ MaxCommands \in Nat /\ sent < MaxCommands
  BY LineProtocolAssumption DEF LineProtocolAssumption, Send, TypeStrengthened, TypeOK
<1>2. Message(key, sent + 1) \in Words
  BY <1>1 DEF Message, Words
<1>3. toServer \in Seq(Words) /\ Append(toServer, Message(key, sent + 1)) \in Seq(Words)
  BY <1>2, AppendProperties DEF TypeStrengthened
<1> QED
  BY <1>1, <1>3 DEF Send

LEMMA TypeInit == Init => TypeStrengthened
<1> SUFFICES ASSUME Init PROVE TypeStrengthened
  OBVIOUS
<1>1. toServer \in Seq(Words) /\ toClient \in Seq(Texts)
  BY DEF Init
<1>2. left \in 0..Entries /\ sent \in 0..MaxCommands /\ lines \in 0..MaxCommands
  BY LineProtocolAssumption DEF LineProtocolAssumption, Init, Entries
<1> QED
  BY <1>1, <1>2, ByteKinds DEF Init, TypeStrengthened, TypeOK

LEMMA TypeStep == TypeStrengthened /\ [Next]_vars => TypeStrengthened'
<1> SUFFICES ASSUME TypeStrengthened, [Next]_vars PROVE TypeStrengthened'
  OBVIOUS
<1> USE DEF serverVars, clientVars
<1>0. /\ TypeOK /\ toServer \in Seq(Words) /\ toClient \in Seq(Texts)
      /\ serving \in Words \cup {Nothing} /\ behind \in BOOLEAN
      /\ client # "gone" => ~reset
      /\ server = "ended" => "name" \in lapses
  BY DEF TypeStrengthened
<1>1. CASE ReadCommand
  <2>1. toServer' \in Seq(Words) /\ serving' \in Words
    BY <1>0, <1>1, AfterFacts DEF ReadCommand
  <2>2. lapses' \in {lapses, lapses \cup {"merged"}}
    BY <1>1 DEF ReadCommand, Merge
  <2> QED
    BY <1>0, <1>1, <2>1, <2>2, ByteKinds DEF ReadCommand, TypeStrengthened, TypeOK
<1>2. CASE ReadNothing
  BY <1>0, <1>2 DEF ReadNothing, TypeStrengthened, TypeOK
<1>3. CASE GoesDown \/ ServerEnds
  <2>1. GoesDown
    <3>1. ServerEnds => GoesDown
      BY DEF ServerEnds, GoesDown
    <3> QED
      BY <1>3, <3>1
  <2>2. toClient' \in Seq(Texts) /\ alive' \in BOOLEAN
    <3>1. <<>> \in Seq(Texts)
      OBVIOUS
    <3>2. alive' = FALSE /\ (toClient' = toClient \/ toClient' = <<>>)
      BY <2>1 DEF GoesDown, ServerDown
    <3> QED
      BY <1>0, <3>1, <3>2
  <2>3. server' \in {"hello", "prompt", "read", "reply", "list", "closed", "ended"}
    BY <1>0, <2>1 DEF GoesDown, TypeOK
  <2> QED
    BY <1>0, <2>1, <2>2, <2>3, ByteKinds DEF GoesDown, TypeStrengthened, TypeOK
<1>12. CASE SaysNothing
  <2>1. /\ server' \in {"prompt", "read", "ended"} /\ (server' = "ended" => "name" \in lapses')
        /\ lapses' \in {lapses \cup {"prompt"}, lapses \cup {"name"}}
        /\ UNCHANGED <<toServer, toClient, serving, left, alive, clientVars, reset>>
    BY <1>12 DEF SaysNothing
  <2> QED
    BY <1>0, <2>1 DEF TypeStrengthened, TypeOK
<1>13. CASE ListFails
  <2>1. Message("LIST", serving.nr) \in Texts
    BY <1>0 DEF Message, Texts, Words, Nothing
  <2>2. toClient' \in Seq(Texts) /\ alive' = ~reset
    BY <1>13, <2>1, WriteFacts DEF ListFails
  <2> QED
    BY <1>0, <1>13, <2>2, ByteKinds DEF ListFails, TypeStrengthened, TypeOK
<1>4. ASSUME NEW m \in Texts, Says(m) PROVE TypeStrengthened'
  <2>1. toClient' \in Seq(Texts) /\ alive' = ~reset
    BY <1>4, WriteFacts DEF Says
  <2>2. server' \in {"hello", "prompt", "read", "reply", "list", "closed"}
    BY <1>4 DEF Says, Moves
  <2> QED
    BY <1>0, <1>4, <2>1, <2>2, ByteKinds DEF Says, TypeStrengthened, TypeOK
<1>5. CASE ReadHello \/ ReadPrompt \/ ReadReply \/ ReadList
  <2>1. ClientTakes /\ client' \in {"prompt", "input", "closed", "list", "batch"}
    BY <1>5 DEF ReadHello, ReadPrompt, ReadThen, ReadReply, ReadList, AfterReply, ClientTakes
  <2>2. toClient' \in Seq(Texts) /\ lapses' \in {lapses, lapses \cup {"merged"}}
    BY <1>0, <2>1, AfterFacts DEF ClientTakes, Merge
  <2>3. client # "gone"
    BY <1>5 DEF ReadHello, ReadPrompt, ReadThen, ReadReply, ReadList
  <2>4. UNCHANGED <<toServer, server, serving, left, alive, sent, lines, behind, reset>>
    BY <2>1 DEF ClientTakes
  <2>5. lapses' \subseteq {"prompt", "name", "list", "merged", "empty file"}
        /\ (server = "ended" => "name" \in lapses')
    BY <1>0, <2>2 DEF TypeOK
  <2>6. /\ \A i \in DOMAIN toServer' : toServer'[i].kind \in Keys
        /\ \A i \in DOMAIN toClient' : toClient'[i].kind \notin Keys \ {"LIST"}
    BY <1>0, <2>2, <2>4, ByteKinds
  <2>7. TypeOK'
    BY <1>0, <2>1, <2>4, <2>5, <2>6 DEF TypeOK
  <2> QED
    BY <1>0, <2>2, <2>3, <2>4, <2>5, <2>7 DEF TypeStrengthened
<1>6. CASE ReadEnd
  BY <1>0, <1>6 DEF ReadEnd, AfterReply, TypeStrengthened, TypeOK
<1>7. ASSUME NEW key \in Keys, Command(key) \/ BatchLine(key) PROVE TypeStrengthened'
  <2>1. Send(key) /\ client # "gone"
    BY <1>7 DEF Command, BatchLine
  <2>2. lines' \in 0..MaxCommands
    <3>1. lines' = lines \/ (lines > 0 /\ lines' = lines - 1)
      BY <1>7 DEF Command, BatchLine
    <3>2. lines \in 0..MaxCommands /\ MaxCommands \in Nat
      BY TypeParts
    <3> QED
      BY ONLY <3>1, <3>2
  <2>3. toServer' \in Seq(Words) /\ sent' \in 0..MaxCommands /\ client' \in {"reply", "gone"}
        /\ UNCHANGED <<toClient, serverVars, answer, behind, reset, lapses>>
    BY <2>1, SendFacts
  <2> QED
    BY <1>0, <2>1, <2>2, <2>3, ByteKinds DEF TypeStrengthened, TypeOK
<1>8. ASSUME NEW n \in BatchSizes, Batch(n) PROVE TypeStrengthened'
  <2>1. /\ lines' \in 0..MaxCommands /\ behind' \in BOOLEAN
        /\ lapses' \in {lapses, lapses \cup {"empty file"}}
    <3>1. n \in Nat /\ sent \in Nat /\ MaxCommands \in Nat /\ sent + n <= MaxCommands /\ lines' = n
      BY <1>8, TypeParts, LineProtocolAssumption DEF LineProtocolAssumption, Batch
    <3>2. lines' \in 0..MaxCommands
      BY ONLY <3>1
    <3>3. behind' \in BOOLEAN /\ lapses' \in {lapses, lapses \cup {"empty file"}}
      BY <1>0, <1>8 DEF Batch
    <3> QED
      BY <3>2, <3>3
  <2> QED
    BY <1>0, <1>8, <2>1 DEF Batch, TypeStrengthened, TypeOK
<1>9. CASE Vanish
  <2>1. toClient' \in Seq(Texts)
    BY <1>9 DEF Vanish
  <2> QED
    BY <1>0, <1>9, <2>1, ByteKinds DEF Vanish, TypeStrengthened, TypeOK
<1>10. CASE Reset
  BY <1>0, <1>10 DEF Reset, TypeStrengthened, TypeOK
<1>11. CASE UNCHANGED vars
  BY <1>0, <1>11 DEF vars, TypeStrengthened, TypeOK
<1>14. ServerStep \/ ServerEnds => TypeStrengthened'
  BY <1>1, <1>2, <1>3, <1>4, <1>12, <1>13, ServerCases
<1>15. ClientReads => TypeStrengthened'
  BY <1>5, <1>6 DEF ClientReads
<1>16. ClientStep => TypeStrengthened'
  BY <1>7, <1>8, <1>15 DEF ClientStep
<1> QED
  BY <1>9, <1>10, <1>11, <1>14, <1>16 DEF Next

-----------------------------------------------------------------------------
(* The weight of what is on the way. *)

Heavy(t) == {i \in 1..Len(t) : Weighs(t[i])}

LEMMA WeightType ==
  ASSUME NEW t \in Seq(Texts)
  PROVE  IsFiniteSet(Heavy(t)) /\ Weight(t) = Cardinality(Heavy(t)) /\ Weight(t) \in Nat
<1>1. IsFiniteSet(1..Len(t))
  <2>1. Len(t) \in Int /\ 1 \in Int
    OBVIOUS
  <2> QED
    BY ONLY <2>1, FS_Interval
<1>2. Heavy(t) \in SUBSET (1..Len(t))
  BY DEF Heavy
<1>3. IsFiniteSet(Heavy(t)) /\ Cardinality(Heavy(t)) \in Nat
  BY <1>1, <1>2, FS_Subset, FS_CardinalityType
<1> QED
  BY <1>3 DEF Weight, Heavy

\* A line more at the end.
LEMMA WeightOfMore ==
  ASSUME NEW t \in Seq(Texts), NEW u \in Seq(Texts), Len(u) = Len(t) + 1,
         \A i \in 1..Len(t) : u[i] = t[i]
  PROVE  Weight(u) = Weight(t) + IF Weighs(u[Len(u)]) THEN 1 ELSE 0
<1> DEFINE n == Len(u)
<1>1. /\ Len(t) \in Nat /\ n \notin 1..Len(t) /\ n \in 1..n /\ n = Len(t) + 1
      /\ \A i \in 1..n : i \in 1..Len(t) \/ i = n
      /\ \A i \in 1..Len(t) : i \in 1..n
  OBVIOUS
<1>2. Heavy(u) = IF Weighs(u[n]) THEN Heavy(t) \cup {n} ELSE Heavy(t)
  BY <1>1 DEF Heavy
<1>3. n \notin Heavy(t)
  BY <1>1 DEF Heavy
<1> HIDE DEF n
<1>4. Cardinality(Heavy(t) \cup {n}) = Cardinality(Heavy(t)) + 1
  BY <1>3, WeightType, FS_AddElement
<1>5. /\ Weight(t) = Cardinality(Heavy(t)) /\ Weight(u) = Cardinality(Heavy(u))
      /\ Weight(t) \in Nat
  BY WeightType
<1>6. CASE Weighs(u[n])
  BY <1>2, <1>4, <1>5, <1>6 DEF n
<1>7. CASE ~Weighs(u[n])
  BY <1>2, <1>5, <1>7 DEF n
<1> QED
  BY <1>6, <1>7

\* A line less at the front.
LEMMA WeightOfLess ==
  ASSUME NEW t \in Seq(Texts), NEW u \in Seq(Texts), Len(t) = Len(u) + 1,
         \A i \in 1..Len(u) : u[i] = t[i + 1]
  PROVE  Weight(t) = Weight(u) + IF Weighs(t[1]) THEN 1 ELSE 0
<1>1. /\ Len(u) \in Nat /\ Len(t) \in Nat
      /\ \A i \in 1..Len(u) : i \in Nat /\ i + 1 \in 1..Len(t) /\ i + 1 # 1
      /\ \A i \in 1..Len(t) : i # 1 => i - 1 \in 1..Len(u) /\ (i - 1) + 1 = i
      /\ 1 \in 1..Len(t)
  OBVIOUS
<1> DEFINE A == Heavy(u)
           B == Heavy(t) \ {1}
           f == [i \in A |-> i + 1]
<1>2. \A i \in A : i \in Nat /\ i + 1 \in B
  BY <1>1 DEF Heavy
<1>3. \A j \in B : j - 1 \in A /\ (j - 1) + 1 = j
  BY <1>1 DEF Heavy
<1>4. f \in Bijection(A, B)
  <2> HIDE DEF A, B
  <2>1. f \in [A -> B] /\ \A i, j \in A : f[i] = f[j] => i = j
    BY <1>2
  <2>2. \A j \in B : \E i \in A : f[i] = j
    BY <1>3
  <2> QED
    BY <2>1, <2>2 DEF Bijection, Injection, Surjection, IsInjective
<1>5. Cardinality(A) = Cardinality(B)
  BY <1>4, WeightType, FS_Bijection DEF ExistsBijection
<1>6. Heavy(t) = IF Weighs(t[1]) THEN B \cup {1} ELSE B
  BY <1>1 DEF Heavy
<1>7. IsFiniteSet(B) /\ Cardinality(B) \in Nat /\ 1 \notin B
  BY WeightType, FS_RemoveElement, FS_CardinalityType
<1> HIDE DEF A, B
<1>8. Cardinality(B \cup {1}) = Cardinality(B) + 1
  BY <1>7, FS_AddElement
<1>9. /\ Weight(t) = Cardinality(Heavy(t)) /\ Weight(u) = Cardinality(B)
      /\ Weight(u) \in Nat
  BY <1>5, WeightType DEF A
<1>10. CASE Weighs(t[1])
  BY <1>6, <1>8, <1>9, <1>10
<1>11. CASE ~Weighs(t[1])
  BY <1>6, <1>9, <1>11
<1> QED
  BY <1>10, <1>11

-----------------------------------------------------------------------------
(* Client and server in step. *)

LEMMA ReplyInit == Init => ReplyStrengthened
<1> SUFFICES ASSUME Init PROVE ReplyStrengthened
  OBVIOUS
<1>1. InStep /\ alive
  BY DEF Init, InStep, Greeted
<1> QED
  BY <1>1, TypeInit DEF ReplyStrengthened

\* After a read there is less of the list, in the same order.
LEMMA ListShrinks ==
  ASSUME TypeStrengthened, NEW k \in Counts(toClient), toClient' = After(toClient, k),
         NEW i \in {1, 2}, server' = server
  PROVE  (ListFrom(i) => ListFrom(1)') /\ (DoneIsLate(i) => DoneIsLate(1)')
<1> DEFINE n == Len(toClient)
<1>1. /\ n \in Nat /\ k \in 1..n /\ Len(toClient') = n - k
      /\ \A j \in 1..n - k : toClient'[j] = toClient[j + k]
  BY AfterFacts DEF TypeStrengthened
<1>2. ASSUME NEW j \in 1..n - k
      PROVE  /\ j + k \in i..n /\ toClient'[j] = toClient[j + k]
             /\ (j + k = n => j = n - k) /\ (j + k >= n - 1 => j >= n - k - 1)
  BY <1>1
<1>3. ASSUME ListFrom(i) PROVE ListFrom(1)'
  <2>1. \A j \in i..n : toClient[j].kind = "DONE" =>
          \/ server = "prompt" /\ j = n
          \/ server = "read" /\ j >= n - 1
    BY <1>3 DEF ListFrom
  <2>2. ASSUME NEW j \in 1..n - k, toClient'[j].kind = "DONE"
        PROVE  \/ server' = "prompt" /\ j = n - k
               \/ server' = "read" /\ j >= n - k - 1
    BY ONLY <1>2, <2>1, <2>2, server' = server
  <2> HIDE DEF n
  <2> QED
    BY <1>1, <2>2 DEF ListFrom
<1>4. ASSUME DoneIsLate(i) PROVE DoneIsLate(1)'
  <2>1. \A j \in i..n : toClient[j].kind = "DONE" => j >= n - 1
    BY <1>4 DEF DoneIsLate
  <2>2. ASSUME NEW j \in 1..n - k, toClient'[j].kind = "DONE"
        PROVE  j >= n - k - 1
    BY ONLY <1>2, <2>1, <2>2
  <2> HIDE DEF n
  <2> QED
    BY <1>1, <2>2 DEF DoneIsLate
<1> QED
  BY <1>3, <1>4

LEMMA InStepServer ==
  ASSUME TypeStrengthened, InStep, alive, OnTrack, OnTrack', ServerStep, ~GoesDown
  PROVE  InStep' /\ alive'
<1> USE DEF serverVars, clientVars, OnTrack
<1>0. /\ toServer \in Seq(Words) /\ toClient \in Seq(Texts) /\ Len(toClient) \in Nat /\ ~reset
      /\ (toClient = <<>> <=> Len(toClient) = 0)
  BY EmptySeq DEF TypeStrengthened
<1>1. CASE ReadCommand
  <2>1. PICK k \in Counts(toServer) : serving' = Head(toServer) /\ toServer' = After(toServer, k)
    BY <1>1 DEF ReadCommand
  <2>2. /\ k \in 1..Len(toServer) /\ Head(toServer) = toServer[1] /\ toServer # <<>>
        /\ toServer' \in Seq(Words) /\ Len(toServer') = Len(toServer) - k
    BY <1>0, <2>1, AfterFacts
  <2>3. client = "reply" \/ client = "closed"
    BY <2>2 DEF InStep, TypeStrengthened, TypeOK
  <2>4. CASE client = "reply"
    <3>1. Asked /\ server = "read" /\ Len(toServer) = 1
      BY <1>1, <2>2, <2>4 DEF InStep, Asked, Answered, ReadCommand
    <3>2. Len(toServer') = 0
      BY <2>2, <3>1
    <3>3. toServer' = <<>>
      BY <2>2, <3>2, EmptySeq
    <3>4. Asked'
      BY <1>1, <2>1, <2>2, <3>1, <3>3 DEF Asked, ReadCommand
    <3> QED
      BY <1>1, <2>4, <3>4 DEF ReadCommand, InStep
  <2>5. CASE client = "closed"
    BY <1>1, <2>5 DEF ReadCommand, InStep
  <2> QED
    BY <2>3, <2>4, <2>5
<1>2. ASSUME NEW m \in Texts, Says(m) PROVE InStep' /\ alive'
  <2>1. /\ toClient' \in Seq(Texts) /\ alive' /\ Len(toClient') = Len(toClient) + 1
        /\ toClient'[Len(toClient) + 1] = m
        /\ \A i \in 1..Len(toClient) : toClient'[i] = toClient[i]
    BY <1>0, <1>2, WriteFacts DEF Says
  <2>2. /\ <<server, m.kind, server'>> \in Moves /\ (server \in {"reply", "list"} => m.nr = serving.nr)
        /\ UNCHANGED <<toServer, serving, client, sent, lines, answer>>
    BY <1>2 DEF Says
  <2>11. server = "list" => \/ server' = "list" /\ m.kind = "entry"
                            \/ server' = "prompt" /\ m.kind = "DONE"
    BY ONLY <2>2, MoveCases
  <2>12. server = "reply" => \/ m.kind = "BYE" /\ server' = "closed"
                             \/ m.kind = "text" /\ server' = "prompt"
                             \/ m.kind = "LIST" /\ server' = "list"
    BY ONLY <2>2, MoveCases
  <2>3. toClient' # <<>>
    BY <1>0, <2>1, EmptySeq
  <2>4. ASSUME NEW i \in {1, 2}, ListFrom(i), server \in {"list", "prompt"},
               i <= Len(toClient) + 1
        PROVE  ListFrom(i)' /\ server' \in {"list", "prompt", "read"}
    <3>1. ASSUME NEW j \in i..Len(toClient')
          PROVE  \/ j \in i..Len(toClient) /\ toClient'[j] = toClient[j]
                 \/ j = Len(toClient')
      BY <1>0, <2>1, <2>4
    <3>2. CASE server = "list"
      <4>1. \A j \in i..Len(toClient) : toClient[j].kind # "DONE"
        BY <2>4, <3>2 DEF ListFrom
      <4>2. \/ server' = "list" /\ m.kind = "entry"
            \/ server' = "prompt" /\ m.kind = "DONE"
        BY <2>11, <3>2
      <4> QED
        BY <1>0, <2>1, <3>1, <4>1, <4>2 DEF ListFrom
    <3>3. CASE server = "prompt"
      <4>1. \A j \in i..Len(toClient) : toClient[j].kind = "DONE" => j = Len(toClient)
        BY <2>4, <3>3 DEF ListFrom
      <4>2. server' = "read" /\ m.kind = "prompt"
        BY <2>2, <3>3 DEF Moves
      <4> QED
        BY <1>0, <2>1, <3>1, <4>1, <4>2 DEF ListFrom
    <3> QED
      BY <2>4, <3>2, <3>3
  <2>5. CASE client = "hello"
    <3>1. Greeted'
      BY <1>0, <2>1, <2>2, <2>5 DEF InStep, Greeted, Moves
    <3> QED
      BY <2>1, <2>2, <2>5, <3>1 DEF InStep
  <2>6. CASE client = "prompt"
    <3>1. PromptFollows'
      BY <1>0, <2>1, <2>2, <2>6 DEF InStep, PromptFollows, Moves
    <3> QED
      BY <2>1, <2>2, <2>6, <3>1 DEF InStep
  <2>7. CASE client \in {"input", "batch"}
    BY <2>2, <2>7 DEF InStep, Moves
  <2>8. CASE client = "reply"
    <3>1. CASE Asked
      <4>1. /\ server = "reply" /\ toServer = <<>> /\ Len(toClient) = 0 /\ m.nr = sent
            /\ \/ m.kind = "BYE" /\ server' = "closed"
               \/ m.kind = "text" /\ server' = "prompt"
               \/ m.kind = "LIST" /\ server' = "list"
        <5>1. server = "reply" /\ toServer = <<>> /\ toClient = <<>> /\ serving.nr = sent
          BY <2>2, <3>1, MoveCases DEF Asked
        <5> QED
          BY <1>0, <2>2, <2>12, <5>1
      <4>2. Answered'
        BY <2>1, <2>2, <2>3, <3>1, <4>1 DEF Answered, Asked, ListFrom
      <4> QED
        BY <2>1, <2>2, <2>8, <4>2 DEF InStep
    <3>2. CASE Answered
      <4>1. /\ Len(toClient) \in Nat \ {0} /\ toClient'[1] = toClient[1]
            /\ server \in {"list", "prompt"}
        BY <1>0, <2>1, <2>2, <3>2 DEF Answered, Moves
      <4>2. CASE toClient[1].kind = "text"
        <5>1. server = "prompt" /\ Len(toClient) = 1 /\ server' = "read"
          BY <2>2, <3>2, <4>1, <4>2 DEF Answered, Moves
        <5> QED
          BY <2>1, <2>2, <2>3, <2>8, <3>2, <4>1, <4>2, <5>1 DEF Answered, InStep
      <4>3. CASE toClient[1].kind = "LIST"
        <5>1. ListFrom(2)' /\ server' \in {"list", "prompt", "read"}
          BY <2>4, <3>2, <4>1, <4>3 DEF Answered
        <5>2. Answered'
          BY <2>2, <2>3, <3>2, <4>1, <4>3, <5>1 DEF Answered
        <5> QED
          BY <2>1, <2>2, <2>8, <5>2 DEF InStep
      <4> QED
        BY <3>2, <4>1, <4>2, <4>3 DEF Answered
    <3> QED
      BY <2>8, <3>1, <3>2 DEF InStep
  <2>9. CASE client = "list"
    <3>1. ListFrom(1) /\ server \in {"list", "prompt"}
      BY <2>2, <2>9 DEF InStep, Moves
    <3>2. ListFrom(1)' /\ server' \in {"list", "prompt", "read"}
      BY <1>0, <2>4, <3>1
    <3> QED
      BY <2>1, <2>2, <2>9, <3>2 DEF InStep
  <2>10. CASE client = "closed"
    BY <2>1, <2>2, <2>10 DEF InStep
  <2> QED
    BY <2>5, <2>6, <2>7, <2>8, <2>9, <2>10 DEF TypeStrengthened, TypeOK
<1>3. CASE ListFails
  <2>1. PICK m \in Texts : m = Message("LIST", serving.nr) /\ m.kind = "LIST" /\ m.nr = serving.nr
    <3>1. serving.nr \in Nat
      BY TypeParts
    <3>2. Message("LIST", serving.nr) \in Texts
      BY <3>1 DEF Message, Texts
    <3> QED
      BY <3>2 DEF Message
  <2>2. /\ toClient' \in Seq(Texts) /\ alive' /\ Len(toClient') = Len(toClient) + 1
        /\ toClient'[Len(toClient) + 1] = m
    BY <1>0, <1>3, <2>1, WriteFacts DEF ListFails
  <2>3. /\ server = "reply" /\ server' = "prompt"
        /\ UNCHANGED <<toServer, serving, client, sent, lines, answer>>
    BY <1>3 DEF ListFails
  <2>4. CASE client = "reply"
    <3>1. toServer = <<>> /\ toClient = <<>> /\ serving.nr = sent
      BY <2>3, <2>4 DEF InStep, Asked, Answered
    <3>2. Len(toClient') = 1 /\ toClient'[1] = m /\ toClient' # <<>>
      <4>1. Len(toClient) = 0
        BY <1>0, <3>1
      <4>2. Len(toClient') = 1 /\ toClient'[1] = m
        BY <2>2, <4>1
      <4> QED
        BY <4>2, EmptySeq
    <3>3. Answered'
      BY <2>1, <2>3, <3>1, <3>2 DEF Answered, ListFrom
    <3> QED
      BY <2>2, <2>3, <2>4, <3>3 DEF InStep
  <2>5. CASE client # "reply"
    BY <2>2, <2>3, <2>5 DEF InStep, Greeted, PromptFollows
  <2> QED
    BY <2>4, <2>5
<1>4. CASE SaysNothing
  <2>1. /\ server = "prompt" /\ server' = "read" /\ alive'
        /\ UNCHANGED <<toServer, toClient, serving, client, sent, lines, answer>>
    BY <1>4 DEF SaysNothing
  <2>2. \A i \in {1, 2} : ListFrom(i) => ListFrom(i)'
    BY <1>0, <2>1 DEF ListFrom
  <2>3. CASE client = "reply"
    <3>1. Answered'
      BY <1>0, <2>1, <2>2, <2>3 DEF InStep, Asked, Answered
    <3> QED
      BY <2>1, <2>3, <3>1 DEF InStep
  <2>4. CASE client # "reply"
    BY <1>0, <2>1, <2>2, <2>4 DEF InStep, Greeted, PromptFollows
  <2> QED
    BY <2>3, <2>4
<1> QED
  BY <1>1, <1>2, <1>3, <1>4, ServerCases DEF ReadNothing, Here, ReadCommand

LEMMA InStepClient ==
  ASSUME TypeStrengthened, InStep, alive, OnTrack, OnTrack', ClientStep
  PROVE  InStep' /\ alive'
<1> USE DEF serverVars, clientVars, OnTrack
<1>0. /\ toServer \in Seq(Words) /\ toClient \in Seq(Texts) /\ Len(toClient) \in Nat
      /\ (toClient = <<>> <=> Len(toClient) = 0) /\ sent \in Nat /\ alive
  BY TypeParts
<1>1. ASSUME ReadHello \/ ReadPrompt \/ ReadReply \/ ReadList PROVE InStep'
  <2>1. PICK k \in Counts(toClient) : toClient' = After(toClient, k)
    BY <1>1 DEF ReadHello, ReadPrompt, ReadThen, ReadReply, ReadList
  <2>2. /\ UNCHANGED <<toServer, server, serving, alive, sent, lines>>
        /\ client \in {"hello", "prompt", "reply", "list"} /\ lines = 0
    BY <1>1 DEF ReadHello, ReadPrompt, ReadThen, ReadReply, ReadList, InStep
  <2>3. /\ k \in 1..Len(toClient) /\ toClient' \in Seq(Texts) /\ Len(toClient') = Len(toClient) - k
        /\ toClient # <<>> /\ Head(toClient) = toClient[1]
    BY <1>0, <2>1, AfterFacts
  <2>4. Len(toClient') = 0 => toClient' = <<>>
    BY <2>3, EmptySeq
  <2>5. CASE client = "hello"
    <3>1. client' = "prompt" /\ sent = 0
      BY <1>1, <2>5 DEF ReadHello, ReadPrompt, ReadThen, ReadReply, ReadList, InStep
    <3>2. PromptFollows'
      BY <1>0, <2>2, <2>3, <2>4, <2>5 DEF InStep, Greeted, PromptFollows
    <3> QED
      BY <1>0, <2>2, <2>5, <3>1, <3>2 DEF InStep
  <2>6. CASE client = "prompt"
    <3>1. client' = "input" /\ answer' = answer
      BY <1>1, <2>6 DEF ReadHello, ReadPrompt, ReadThen, ReadReply, ReadList
    <3>2. server = "read" /\ toClient' = <<>>
      BY <1>0, <2>2, <2>3, <2>4, <2>6 DEF InStep, PromptFollows
    <3> QED
      BY <1>0, <2>2, <2>6, <3>1, <3>2 DEF InStep
  <2>7. CASE client = "reply"
    <3>1. /\ Answered /\ toClient[1].nr = sent /\ toServer = <<>> /\ serving.nr = sent
      BY <2>3, <2>7 DEF InStep, Asked, Answered
    <3>2. answer' = toClient[1]
          /\ client' = CASE toClient[1].kind = "BYE" -> "closed"
                         [] toClient[1].kind = "LIST" -> "list"
                         [] OTHER -> "prompt"
      BY <1>1, <2>2, <2>3, <2>7 DEF ReadHello, ReadPrompt, ReadThen, ReadReply, ReadList, AfterReply
    <3>3. CASE toClient[1].kind = "BYE"
      BY <1>0, <2>2, <3>1, <3>2, <3>3 DEF InStep
    <3>4. CASE toClient[1].kind = "LIST"
      <4>1. server \in {"list", "prompt", "read"} /\ ListFrom(2)
        BY <3>1, <3>4 DEF Answered
      <4>2. ListFrom(1)'
        BY <2>1, <2>2, <4>1, ListShrinks
      <4> QED
        BY <1>0, <2>2, <3>1, <3>2, <3>4, <4>1, <4>2 DEF InStep
    <3>5. CASE toClient[1].kind = "text"
      <4>1. PromptFollows'
        BY <1>0, <2>2, <2>3, <2>4, <3>1, <3>5 DEF Answered, PromptFollows
      <4> QED
        BY <1>0, <2>2, <3>1, <3>2, <3>5, <4>1 DEF InStep
    <3> QED
      BY <3>1, <3>3, <3>4, <3>5 DEF Answered
  <2>8. CASE client = "list"
    <3>1. /\ server \in {"list", "prompt", "read"} /\ ListFrom(1) /\ toServer = <<>>
          /\ serving.nr = sent /\ (sent > 0 => answer.nr = sent) /\ answer' = answer
      BY <1>1, <2>8 DEF ReadHello, ReadPrompt, ReadThen, ReadReply, ReadList, InStep
    <3>2. client' = IF toClient[1].kind = "DONE" THEN "prompt" ELSE "list"
      BY <1>1, <2>2, <2>3, <2>8 DEF ReadHello, ReadPrompt, ReadThen, ReadReply, ReadList, AfterReply
    <3>3. CASE toClient[1].kind = "DONE"
      <4>1. \/ server = "prompt" /\ Len(toClient) = 1
            \/ server = "read" /\ Len(toClient) <= 2
        <5>1. 1 \in 1..Len(toClient)
          BY <1>0, <2>3
        <5>2. \/ server = "read" /\ 1 >= Len(toClient) - 1
              \/ server = "prompt" /\ 1 = Len(toClient)
          BY <3>1, <3>3, <5>1 DEF ListFrom
        <5> QED
          BY <1>0, <5>2
      <4>2. ASSUME server = "prompt", Len(toClient) = 1 PROVE PromptFollows'
        <5>1. Len(toClient') = 0
          BY <2>3, <4>2
        <5> QED
          BY <2>2, <2>4, <4>2, <5>1 DEF PromptFollows
      <4>3. ASSUME server = "read", Len(toClient) <= 2 PROVE PromptFollows'
        <5>1. Len(toClient') <= 1
          BY <2>3, <4>3
        <5> QED
          BY <2>2, <4>3, <5>1 DEF PromptFollows
      <4>4. PromptFollows'
        BY <4>1, <4>2, <4>3
      <4> QED
        BY <1>0, <2>2, <3>1, <3>2, <3>3, <4>4 DEF InStep
    <3>4. CASE toClient[1].kind # "DONE"
      <4>1. ListFrom(1)'
        BY <2>1, <2>2, <3>1, ListShrinks
      <4> QED
        BY <1>0, <2>2, <3>1, <3>2, <3>4, <4>1 DEF InStep
    <3> QED
      BY <3>3, <3>4
  <2> QED
    BY <2>2, <2>5, <2>6, <2>7, <2>8
<1>2. CASE ReadEnd
  <2>1. server = "closed" /\ toClient = <<>> /\ client \in {"hello", "prompt", "reply"}
    BY <1>0, <1>2 DEF ReadEnd, Closed
  <2> QED
    BY <1>0, <2>1 DEF InStep, Greeted, PromptFollows, Asked, Answered
<1>3. ASSUME NEW key \in Keys, Command(key) \/ BatchLine(key) PROVE InStep'
  <2>1. /\ server = "read" /\ toClient = <<>> /\ toServer = <<>> /\ Send(key) /\ ~Closed
        /\ lines' = 0
    BY <1>0, <1>3 DEF Command, BatchLine, InStep, Closed
  <2>2. /\ toServer' = <<Message(key, sent + 1)>> /\ client' = "reply" /\ sent' = sent + 1
        /\ UNCHANGED <<toClient, server, alive>>
    <3>1. /\ toServer' = Append(toServer, Message(key, sent + 1)) /\ client' = "reply"
          /\ sent' = sent + 1 /\ UNCHANGED <<toClient, server, alive>>
      BY <2>1, SendFacts
    <3> QED
      BY <2>1, <3>1
  <2>3. Asked'
    BY <2>1, <2>2 DEF Asked, Message
  <2> QED
    BY <1>0, <2>1, <2>2, <2>3 DEF InStep
<1>4. ASSUME NEW n \in BatchSizes, Batch(n) PROVE InStep'
  <2>1. /\ server = "read" /\ toClient = <<>> /\ toServer = <<>> /\ client = "input" /\ n \in {0, 1}
    <3>1. n \in Nat /\ ~(n > 1)
      BY <1>4, LineProtocolAssumption DEF LineProtocolAssumption, Batch
    <3>2. n \in {0, 1}
      BY <3>1
    <3> QED
      BY <1>4, <3>2 DEF Batch, InStep
  <2>2. UNCHANGED <<toServer, toClient, server, serving, alive, sent, answer>> /\ lines' = n
    BY <1>4 DEF Batch
  <2>3. CASE n = 1
    <3>1. client' = "batch"
      BY <1>4, <2>3 DEF Batch
    <3> QED
      BY <1>0, <2>1, <2>2, <2>3, <3>1 DEF InStep
  <2>4. CASE n = 0
    <3>1. client' = "prompt"
      BY <1>4, <2>4 DEF Batch
    <3>2. PromptFollows'
      BY <2>1, <2>2, <1>0 DEF PromptFollows
    <3> QED
      BY <1>0, <2>1, <2>2, <2>4, <3>1, <3>2 DEF InStep
  <2> QED
    BY <2>1, <2>3, <2>4
<1>5. alive' = alive
  <2>1. CASE ClientReads
    BY <2>1 DEF ClientReads, ReadHello, ReadPrompt, ReadThen, ReadReply, ReadList, ReadEnd
  <2>2. CASE \E key \in Keys : Command(key) \/ BatchLine(key)
    BY <2>2 DEF Command, BatchLine, Send
  <2>3. CASE \E n \in BatchSizes : Batch(n)
    BY <2>3 DEF Batch
  <2> QED
    BY <2>1, <2>2, <2>3 DEF ClientStep
<1>6. InStep'
  <2>1. CASE ClientReads
    BY <1>1, <1>2, <2>1 DEF ClientReads
  <2> QED
    BY <1>3, <1>4, <2>1 DEF ClientStep
<1> QED
  BY <1>0, <1>5, <1>6

\* What is left of the conversation when the server goes.
LEMMA ServerLeaves ==
  ASSUME TypeStrengthened, InStep, OnTrack, GoesDown
  PROVE  Left' /\ ~alive' /\ OnTrack'
<1> USE DEF clientVars
<1>0. /\ toClient \in Seq(Texts) /\ Len(toClient) \in Nat
      /\ toClient' = toClient \/ (toClient' = <<>> /\ Len(toClient') = 0)
      /\ UNCHANGED <<client, sent, lines, answer, behind, lapses>> /\ alive' = FALSE
  BY DEF TypeStrengthened, GoesDown, ServerDown
<1>00. Len(toClient) \in Nat /\ (toClient = <<>> <=> Len(toClient) = 0)
  BY TypeParts
<1>01. Len(toClient) \in 1..2 \/ Len(toClient) = 1 \/ Len(toClient) = 0 => Len(toClient) <= 2
  <2>1. \A n \in Nat : n \in 1..2 \/ n = 1 \/ n = 0 => n <= 2
    OBVIOUS
  <2> QED
    BY ONLY <1>00, <2>1
<1>1. \A i \in {1, 2} : ListFrom(i) => DoneIsLate(i)
  BY <1>0 DEF ListFrom, DoneIsLate
<1>2. /\ alive /\ ~behind /\ client # "gone" /\ "name" \notin lapses
      /\ lines' = IF client' = "batch" THEN 1 ELSE 0
      /\ client' \in {"prompt", "input", "list", "closed"} /\ sent' > 0 => answer'.nr = sent'
      /\ client' = "hello" => sent' = 0
  BY <1>0 DEF InStep, OnTrack, GoesDown
<1>3. /\ client = "hello" => Len(toClient) <= 2
      /\ client = "prompt" => Len(toClient) <= 1
      /\ client \in {"input", "batch"} => toClient = <<>>
      /\ client = "list" => DoneIsLate(1)
  <2>1. Greeted => Len(toClient) <= 2
    BY ONLY <1>00, <1>01, Zenon DEF Greeted
  <2>2. PromptFollows => Len(toClient) <= 1
    BY ONLY <1>00 DEF PromptFollows
  <2> QED
    BY <1>1, <2>1, <2>2 DEF InStep
<1>4. client = "reply" => \/ toClient = <<>>
                          \/ /\ toClient[1].nr = sent
                             /\ \/ toClient[1].kind = "BYE"
                                \/ toClient[1].kind = "text" /\ Len(toClient) <= 2
                                \/ toClient[1].kind = "LIST" /\ DoneIsLate(2)
  <2>1. Asked => toClient = <<>>
    BY DEF Asked
  <2>2. Answered => /\ toClient[1].nr = sent
                    /\ \/ toClient[1].kind = "BYE"
                       \/ toClient[1].kind = "text" /\ Len(toClient) <= 2
                       \/ toClient[1].kind = "LIST" /\ DoneIsLate(2)
    <3>1. ListFrom(2) => DoneIsLate(2)
      BY <1>1
    <3> QED
      BY ONLY <1>00, <1>01, <3>1, Zenon DEF Answered
  <2> QED
    BY <2>1, <2>2 DEF InStep
<1>5. CASE toClient' = toClient
  <2>1. \A i \in {1, 2} : DoneIsLate(i) => DoneIsLate(i)'
    BY <1>5 DEF DoneIsLate
  <2> QED
    BY <1>0, <1>2, <1>3, <1>4, <1>5, <2>1 DEF Left, OnTrack
<1>6. CASE toClient' = <<>> /\ Len(toClient') = 0
  <2>1. DoneIsLate(1)'
    BY <1>6 DEF DoneIsLate
  <2> QED
    BY <1>0, <1>2, <1>6, <2>1 DEF Left, OnTrack
<1> QED
  BY <1>0, <1>5, <1>6

\* The client goes on alone.
LEMMA LeftClient ==
  ASSUME TypeStrengthened, Left, ~alive, OnTrack, OnTrack', ClientStep
  PROVE  Left' /\ ~alive'
<1> USE DEF serverVars, clientVars, OnTrack
<1>0. /\ toClient \in Seq(Texts) /\ Len(toClient) \in Nat
      /\ (toClient = <<>> <=> Len(toClient) = 0) /\ sent \in Nat
  BY TypeParts
<1>1. ASSUME ReadHello \/ ReadPrompt \/ ReadReply \/ ReadList PROVE Left' /\ ~alive'
  <2>1. PICK k \in Counts(toClient) : toClient' = After(toClient, k)
    BY <1>1 DEF ReadHello, ReadPrompt, ReadThen, ReadReply, ReadList
  <2>2. /\ UNCHANGED <<server, alive, sent, lines>>
        /\ client \in {"hello", "prompt", "reply", "list"} /\ lines = 0
    BY <1>1 DEF ReadHello, ReadPrompt, ReadThen, ReadReply, ReadList, Left
  <2>3. /\ k \in 1..Len(toClient) /\ toClient' \in Seq(Texts) /\ Len(toClient') = Len(toClient) - k
        /\ toClient # <<>> /\ Head(toClient) = toClient[1]
    BY <1>0, <2>1, AfterFacts
  <2>4. /\ Len(toClient) <= 1 => toClient' = <<>>
        /\ Len(toClient) <= 2 => Len(toClient') <= 1
    BY <1>0, <2>3, EmptySeq
  <2>5. CASE client = "hello"
    <3>1. client' = "prompt" /\ sent = 0 /\ Len(toClient') <= 1
      BY <1>1, <2>4, <2>5 DEF ReadHello, ReadPrompt, ReadThen, ReadReply, ReadList, Left
    <3> QED
      BY <1>0, <2>2, <2>5, <3>1 DEF Left
  <2>6. CASE client = "prompt"
    <3>1. client' = "input" /\ answer' = answer /\ toClient' = <<>>
      BY <1>1, <2>4, <2>6 DEF ReadHello, ReadPrompt, ReadThen, ReadReply, ReadList, Left
    <3> QED
      BY <1>0, <2>2, <2>6, <3>1 DEF Left
  <2>7. CASE client = "reply"
    <3>1. answer' = toClient[1] /\ toClient[1].nr = sent
          /\ client' = CASE toClient[1].kind = "BYE" -> "closed"
                         [] toClient[1].kind = "LIST" -> "list"
                         [] OTHER -> "prompt"
      BY <1>1, <2>2, <2>3, <2>7
         DEF ReadHello, ReadPrompt, ReadThen, ReadReply, ReadList, AfterReply, Left
    <3>2. CASE toClient[1].kind = "BYE"
      BY <1>0, <2>2, <3>1, <3>2 DEF Left
    <3>3. CASE toClient[1].kind = "LIST"
      <4>1. DoneIsLate(1)'
        BY <2>1, <2>2, <2>3, <2>7, <3>3, ListShrinks DEF Left
      <4> QED
        BY <1>0, <2>2, <3>1, <3>3, <4>1 DEF Left
    <3>4. CASE toClient[1].kind = "text"
      <4>1. Len(toClient') <= 1
        BY <2>3, <2>4, <2>7, <3>4 DEF Left
      <4> QED
        BY <1>0, <2>2, <3>1, <3>4, <4>1 DEF Left
    <3> QED
      BY <2>3, <2>7, <3>2, <3>3, <3>4 DEF Left
  <2>8. CASE client = "list"
    <3>1. /\ DoneIsLate(1) /\ answer' = answer
          /\ sent > 0 => answer.nr = sent \/ answer = Nothing
          /\ client' = IF toClient[1].kind = "DONE" THEN "prompt" ELSE "list"
      BY <1>1, <2>2, <2>3, <2>8
         DEF ReadHello, ReadPrompt, ReadThen, ReadReply, ReadList, AfterReply, Left
    <3>2. DoneIsLate(1)'
      BY <2>1, <2>2, <3>1, ListShrinks
    <3>3. toClient[1].kind = "DONE" => Len(toClient') <= 1
      <4>1. 1 \in 1..Len(toClient)
        BY <1>0, <2>3
      <4>2. toClient[1].kind = "DONE" => 1 >= Len(toClient) - 1
        BY <3>1, <4>1 DEF DoneIsLate
      <4> QED
        BY <1>0, <2>4, <4>2
    <3> QED
      BY <1>0, <2>2, <3>1, <3>2, <3>3 DEF Left
  <2> QED
    BY <2>2, <2>5, <2>6, <2>7, <2>8
<1>2. CASE ReadEnd
  <2>1. /\ toClient' = <<>> /\ Len(toClient') = 0 /\ alive' = alive /\ sent' = sent
        /\ lines' = lines /\ lines = 0 /\ client \in {"hello", "prompt", "reply"}
        /\ client' = CASE client = "hello" -> "prompt" [] client = "prompt" -> "input"
                        [] OTHER -> "prompt"
        /\ answer' = IF client = "reply" THEN Nothing ELSE answer
    BY <1>0, <1>2 DEF ReadEnd, AfterReply, Left
  <2> QED
    BY <1>0, <2>1 DEF Left
<1>3. ASSUME NEW key \in Keys, Command(key) \/ BatchLine(key) PROVE Left' /\ ~alive'
  <2>1. /\ toClient' = <<>> /\ client' \in {"reply", "gone"} /\ alive' = alive
        /\ lines' = 0
    BY <1>0, <1>3 DEF Command, BatchLine, Left, Send
  <2> QED
    BY <2>1 DEF Left
<1>4. ASSUME NEW n \in BatchSizes, Batch(n) PROVE Left' /\ ~alive'
  <2>1. n \in {0, 1}
    <3>1. n \in Nat /\ ~(n > 1)
      BY <1>4, LineProtocolAssumption DEF LineProtocolAssumption, Batch
    <3> QED
      BY <3>1
  <2>2. /\ UNCHANGED <<toClient, alive, sent, answer>> /\ lines' = n /\ client = "input"
        /\ client' = IF n = 0 THEN "prompt" ELSE "batch"
    BY <1>4 DEF Batch
  <2>3. CASE n = 1
    BY <1>0, <2>2, <2>3 DEF Left
  <2>4. CASE n = 0
    BY <1>0, <2>2, <2>4 DEF Left
  <2> QED
    BY <2>1, <2>3, <2>4
<1> QED
  BY <1>1, <1>2, <1>3, <1>4 DEF ClientStep, ClientReads

LEMMA ReplyStep == ReplyStrengthened /\ [Next]_vars => ReplyStrengthened'
<1> SUFFICES ASSUME ReplyStrengthened, [Next]_vars PROVE ReplyStrengthened'
  OBVIOUS
<1> USE DEF serverVars, clientVars
<1>1. TypeStrengthened /\ TypeStrengthened' /\ (OnTrack => IF alive THEN InStep ELSE Left)
  BY TypeStep DEF ReplyStrengthened
<1>2. SUFFICES ASSUME OnTrack' PROVE IF alive' THEN InStep' ELSE Left'
  BY <1>1 DEF ReplyStrengthened
<1>3. CASE GoesDown
  <2>1. OnTrack /\ alive
    BY <1>2, <1>3 DEF GoesDown, OnTrack
  <2> QED
    BY <1>1, <1>3, <2>1, ServerLeaves
<1>4. CASE ServerStep /\ ~GoesDown
  <2>1. OnTrack /\ alive
    <3>1. CASE ReadCommand \/ ReadNothing
      BY <1>2, <3>1 DEF ReadCommand, ReadNothing, Merge, OnTrack
    <3>2. CASE SaysNothing \/ ListFails
      BY <1>2, <3>2 DEF SaysNothing, ListFails, OnTrack
    <3>3. CASE \E m \in Texts : Says(m)
      BY <1>2, <3>3 DEF Says, OnTrack
    <3> QED
      BY <1>1, <1>4, <3>1, <3>2, <3>3, ServerCases
  <2> QED
    BY <1>1, <1>2, <1>4, <2>1, InStepServer
<1>5. CASE ClientStep
  <2>1. OnTrack
    <3>1. CASE ClientReads
      BY <1>2, <3>1 DEF ClientReads, ReadHello, ReadPrompt, ReadThen, ReadReply, ReadList, ReadEnd,
                        Merge, OnTrack
    <3>2. CASE \E key \in Keys : Command(key) \/ BatchLine(key)
      BY <1>2, <3>2 DEF Command, BatchLine, Send, OnTrack
    <3>3. CASE \E n \in BatchSizes : Batch(n)
      BY <1>1, <1>2, <3>3 DEF Batch, OnTrack, TypeStrengthened
    <3> QED
      BY <1>5, <3>1, <3>2, <3>3 DEF ClientStep
  <2> QED
    BY <1>1, <1>2, <1>5, <2>1, InStepClient, LeftClient
<1>6. CASE Vanish \/ Reset
  BY <1>2, <1>6 DEF Vanish, Reset, OnTrack
<1>7. CASE UNCHANGED vars
  <2>1. UNCHANGED <<toServer, toClient, server, serving, left, alive, client, sent, lines, answer,
                    behind, reset, lapses>>
    BY <1>7 DEF vars
  <2>2. OnTrack
    BY <1>2, <2>1 DEF OnTrack
  <2>3. InStep => InStep'
    BY <2>1 DEF InStep, Greeted, PromptFollows, Asked, Answered, ListFrom
  <2>4. Left => Left'
    BY <2>1 DEF Left, DoneIsLate
  <2> QED
    BY <1>1, <2>1, <2>2, <2>3, <2>4
<1>8. ServerEnds => GoesDown
  BY DEF ServerEnds, GoesDown
<1> QED
  BY <1>3, <1>4, <1>5, <1>6, <1>7, <1>8 DEF Next

(***************************************************************************)
(* As long as no file of several lines has been sent, and no CD was left   *)
(* without an answer, what handle_response takes for the reply to a        *)
(* command is the server's answer to it, or the empty buffer of a server   *)
(* that is gone: however many messages a read returns, and whatever else   *)
(* goes wrong.                                                             *)
(***************************************************************************)
THEOREM RepliesAreToCommands == Spec => []ReplyIsToCommand
<1>1. ReplyStrengthened => ReplyIsToCommand
  BY DEF ReplyStrengthened, OnTrack, InStep, Left, ReplyIsToCommand
<1>2. ReplyStrengthened /\ [Next]_vars => ReplyStrengthened'
  BY ReplyStep
<1> QED
  BY <1>1, <1>2, ReplyInit, PTL DEF Spec

-----------------------------------------------------------------------------
(* No mutual wait, as long as nothing is left out or thrown away. *)

\* A step after which nothing is left out so far: then nothing was before.
LEMMA CourseKept ==
  ASSUME TypeStrengthened, [Next]_vars, OnCourse'
  PROVE  OnCourse /\ ~SaysNothing /\ ~ListFails /\ ~GoesDown
<1> USE DEF serverVars, clientVars
<1>1. lapses \subseteq lapses'
  <2>1. CASE ServerStep
    <3>1. CASE ReadCommand \/ ReadNothing
      BY <3>1 DEF ReadCommand, ReadNothing, Merge
    <3>2. CASE SaysNothing \/ ListFails
      BY <3>2 DEF SaysNothing, ListFails
    <3>3. CASE GoesDown \/ \E m \in Texts : Says(m)
      BY <3>3 DEF Says, GoesDown
    <3> QED
      BY <2>1, <3>1, <3>2, <3>3, ServerCases
  <2>2. CASE ClientStep
    <3>1. CASE ClientReads
      BY <3>1 DEF ClientReads, ReadHello, ReadPrompt, ReadThen, ReadReply, ReadList, ReadEnd, Merge
    <3>2. CASE \E key \in Keys : Command(key) \/ BatchLine(key)
      BY <3>2 DEF Command, BatchLine, Send
    <3>3. CASE \E n \in BatchSizes : Batch(n)
      BY <3>3 DEF Batch
    <3> QED
      BY <2>2, <3>1, <3>2, <3>3 DEF ClientStep
  <2>3. CASE Vanish \/ Reset \/ ServerEnds
    BY <2>3 DEF Vanish, Reset, ServerEnds
  <2>4. CASE UNCHANGED vars
    BY <2>4 DEF vars
  <2> QED
    BY <2>1, <2>2, <2>3, <2>4 DEF Next
<1>2. ~SaysNothing /\ ~ListFails /\ ~GoesDown
  BY DEF SaysNothing, ListFails, GoesDown, ServerDown, OnCourse, Closed
<1>3. client # "gone" /\ ~Closed
  <2>1. CASE ServerStep
    <3>1. CASE ReadCommand \/ ReadNothing
      BY <3>1 DEF ReadCommand, ReadNothing, OnCourse, Closed
    <3>2. CASE \E m \in Texts : Says(m)
      BY <3>2, MoveCases DEF Says, OnCourse, Closed
    <3> QED
      BY <1>2, <2>1, <3>1, <3>2, ServerCases
  <2>2. CASE ClientStep
    <3>1. CASE ClientReads
      BY <3>1 DEF ClientReads, ReadHello, ReadPrompt, ReadThen, ReadReply, ReadList, ReadEnd,
                  OnCourse, Closed
    <3>2. CASE \E key \in Keys : Command(key) \/ BatchLine(key)
      BY <3>2 DEF Command, BatchLine, Send, OnCourse, Closed
    <3>3. CASE \E n \in BatchSizes : Batch(n)
      BY <3>3 DEF Batch, OnCourse, Closed
    <3> QED
      BY <2>2, <3>1, <3>2, <3>3 DEF ClientStep
  <2>3. CASE Vanish \/ Reset \/ ServerEnds
    BY <2>3 DEF Vanish, Reset, ServerEnds, ServerDown, OnCourse, Closed
  <2>4. CASE UNCHANGED vars
    BY <2>4 DEF vars, OnCourse, Closed
  <2> QED
    BY <2>1, <2>2, <2>3, <2>4 DEF Next
<1> QED
  BY <1>1, <1>2, <1>3 DEF OnCourse

\* A read of the client takes the first line.
LEMMA FirstIsTaken ==
  ASSUME TypeStrengthened, lapses' = {}, ReadHello \/ ReadPrompt \/ ReadReply \/ ReadList
  PROVE  /\ toClient' \in Seq(Texts) /\ Len(toClient) \in Nat \ {0}
         /\ Len(toClient') = Len(toClient) - 1 /\ Head(toClient) = toClient[1]
         /\ \A i \in 1..Len(toClient) - 1 : toClient'[i] = toClient[i + 1]
         /\ UNCHANGED <<toServer, serverVars, lines>>
         /\ client \in {"hello", "prompt", "reply", "list"}
<1>1. PICK k \in Counts(toClient) : toClient' = After(toClient, k) /\ Merge(k)
  BY DEF ReadHello, ReadPrompt, ReadThen, ReadReply, ReadList
<1>2. k = 1
  <2>1. k \in 1..Len(toClient) /\ ~(k > 1)
    BY <1>1, AfterFacts DEF Merge, TypeStrengthened
  <2> QED
    BY <2>1
<1>3. /\ UNCHANGED <<toServer, serverVars, lines>>
      /\ client \in {"hello", "prompt", "reply", "list"}
  BY DEF ReadHello, ReadPrompt, ReadThen, ReadReply, ReadList
<1> QED
  BY <1>1, <1>2, <1>3, AfterFacts DEF TypeStrengthened

LEMMA ListsStep ==
  ASSUME TypeStrengthened, ListsGoOn, OnCourse', [Next]_vars
  PROVE  ListsGoOn'
<1> USE DEF serverVars, clientVars
<1> DEFINE n == Len(toClient)
<1>0. /\ toClient \in Seq(Texts) /\ n \in Nat /\ client # "gone" /\ client' # "gone"
      /\ \A i \in 0..n : WithinList(i) =>
           IF i = n THEN server = "list" ELSE toClient[i + 1].kind \in {"entry", "DONE"}
      /\ ~SaysNothing /\ ~ListFails /\ ~GoesDown /\ lapses' = {}
  BY CourseKept DEF TypeStrengthened, ListsGoOn, OnCourse
<1>1. SUFFICES ASSUME NEW i \in 0..Len(toClient'), WithinList(i)'
               PROVE  IF i = Len(toClient') THEN server' = "list"
                      ELSE toClient'[i + 1].kind \in {"entry", "DONE"}
  BY DEF ListsGoOn
<1>2. CASE ReadCommand \/ ReadNothing
  BY <1>0, <1>1, <1>2 DEF ReadCommand, ReadNothing, WithinList, Here
<1>3. ASSUME NEW m \in Texts, Says(m)
      PROVE  IF i = Len(toClient') THEN server' = "list"
             ELSE toClient'[i + 1].kind \in {"entry", "DONE"}
  <2>1. client # "gone" /\ client' = client
    BY <1>0, <1>3 DEF Says
  <2>2. /\ Len(toClient') = n + 1 /\ toClient'[n + 1] = m
        /\ \A j \in 1..n : toClient'[j] = toClient[j]
    BY <1>3, <2>1, WriteFacts DEF Says
  <2>3. /\ server = "list" => m.kind \in {"entry", "DONE"}
        /\ m.kind \in {"LIST", "entry"} => server' = "list"
    BY <1>3, MoveCases DEF Says
  <2>4. CASE i = n + 1
    BY <1>0, <1>1, <2>2, <2>3, <2>4 DEF WithinList
  <2>5. CASE i \in 0..n
    <3>1. WithinList(i)
      BY <1>0, <1>1, <2>1, <2>2, <2>5 DEF WithinList
    <3>2. IF i = n THEN server = "list" ELSE toClient[i + 1].kind \in {"entry", "DONE"}
      BY <1>0, <2>1, <2>5, <3>1
    <3>3. i # n => i + 1 \in 1..n
      BY <1>0, <2>5
    <3> HIDE DEF n
    <3> QED
      BY <1>0, <2>2, <2>3, <2>5, <3>2, <3>3
  <2> QED
    BY <1>0, <1>1, <2>2, <2>4, <2>5
<1>4. CASE ReadHello \/ ReadPrompt \/ ReadReply \/ ReadList
  <2>1. /\ Len(toClient') = n - 1 /\ Head(toClient) = toClient[1] /\ n \in Nat \ {0}
        /\ \A j \in 1..n - 1 : toClient'[j] = toClient[j + 1]
        /\ server' = server /\ client # "gone"
    BY <1>0, <1>4, FirstIsTaken
  <2>2. WithinList(i + 1)
    <3>1. CASE i = 0
      <4>1. client' = "list"
        BY <1>1, <3>1 DEF WithinList
      <4>2. \/ ReadReply /\ toClient[1].kind = "LIST"
            \/ ReadList /\ toClient[1].kind # "DONE"
        BY <1>4, <2>1, <4>1 DEF ReadHello, ReadPrompt, ReadThen, ReadReply, ReadList, AfterReply
      <4>3. CASE ReadReply /\ toClient[1].kind = "LIST"
        BY <3>1, <4>3 DEF WithinList
      <4>4. CASE ReadList /\ toClient[1].kind # "DONE"
        <5>1. WithinList(0)
          BY <4>4 DEF ReadList, WithinList
        <5>2. toClient[1].kind \in {"entry", "DONE"}
          BY <1>0, <2>1, <5>1
        <5> QED
          BY <3>1, <4>4, <5>2 DEF WithinList
      <4> QED
        BY <4>2, <4>3, <4>4
    <3>2. CASE i # 0
      <4>1. i \in 1..n - 1 /\ i + 1 # 0
        BY <1>0, <1>1, <2>1, <3>2
      <4> QED
        BY <1>1, <2>1, <3>2, <4>1 DEF WithinList
    <3> QED
      BY <3>1, <3>2
  <2>3. i + 1 \in 0..n /\ (i + 1 = n <=> i = n - 1) /\ (i # n - 1 => i + 1 \in 1..n - 1)
    BY <1>0, <1>1, <2>1
  <2>4. IF i + 1 = n THEN server = "list" ELSE toClient[i + 1 + 1].kind \in {"entry", "DONE"}
    BY <1>0, <2>1, <2>2, <2>3
  <2> HIDE DEF n
  <2> QED
    BY <2>1, <2>3, <2>4
<1>5. CASE ReadEnd \/ (\E key \in Keys : Command(key) \/ BatchLine(key))
           \/ (\E b \in BatchSizes : Batch(b))
  <2>1. client' # "list" /\ client # "gone" /\ UNCHANGED <<toClient, server>>
    BY <1>5 DEF ReadEnd, AfterReply, Command, BatchLine, Send, Batch
  <2> QED
    BY <1>0, <1>1, <2>1 DEF WithinList
<1>6. CASE Vanish \/ Reset \/ ServerEnds
  BY <1>0, <1>6 DEF Vanish, Reset, ServerEnds, GoesDown
<1>7. CASE UNCHANGED vars
  BY <1>0, <1>1, <1>7 DEF vars, WithinList
<1> QED
  BY <1>0, <1>2, <1>3, <1>4, <1>5, <1>6, <1>7, ServerCases DEF Next, ClientStep, ClientReads

LEMMA SupplyType ==
  ASSUME TypeStrengthened
  PROVE  /\ Weight(toClient) \in Nat /\ Len(toServer) \in Nat /\ Promised \in 0..2
         /\ Supply \in Nat /\ Demand \in 0..2
  BY WeightType DEF TypeStrengthened, Supply, Promised, Demand

LEMMA SupplyStep ==
  ASSUME ConnectionStrengthened, OnCourse', [Next]_vars
  PROVE  EnoughIsOnTheWay'
<1> USE DEF serverVars, clientVars
<1>0. TypeStrengthened /\ ListsGoOn /\ EnoughIsOnTheWay /\ TypeStrengthened'
  BY TypeStep DEF ConnectionStrengthened
<1>1. /\ client' # "gone" /\ ~Closed' /\ lapses' = {} /\ OnCourse /\ client # "gone" /\ ~Closed
      /\ ~SaysNothing /\ ~ListFails /\ ~GoesDown
  BY <1>0, CourseKept DEF OnCourse
<1> SUFFICES Supply' >= Demand'
  BY DEF EnoughIsOnTheWay
<1>2. /\ Weight(toClient) \in Nat /\ Len(toServer) \in Nat
      /\ Supply = Weight(toClient) + 2 * Len(toServer) + Promised
      /\ Supply' = Weight(toClient') + 2 * Len(toServer') + Promised'
      /\ Supply >= Demand /\ Supply \in Nat /\ Demand \in 0..2
  BY <1>0, <1>1, SupplyType DEF Supply, EnoughIsOnTheWay
<1>3. CASE ReadCommand
  <2>1. PICK k \in Counts(toServer) : toServer' = After(toServer, k) /\ Merge(k)
    BY <1>3 DEF ReadCommand
  <2>2. k = 1
    <3>1. k \in 1..Len(toServer) /\ ~(k > 1)
      BY <1>0, <1>1, <2>1, AfterFacts DEF Merge, TypeStrengthened
    <3> QED
      BY <3>1
  <2>3. Len(toServer') = Len(toServer) - 1
    BY <1>0, <2>1, <2>2, AfterFacts DEF TypeStrengthened
  <2>4. /\ Promised = 0 /\ Promised' = 2 /\ Demand' = Demand /\ toClient' = toClient
        /\ client # "gone" /\ ~Closed
    BY <1>1, <1>3 DEF ReadCommand, Promised, Demand, Closed
  <2> QED
    BY <1>2, <2>3, <2>4
<1>4. CASE ReadNothing
  BY <1>1, <1>4 DEF ReadNothing, Here
<1>5. ASSUME NEW m \in Texts, Says(m) PROVE Supply' >= Demand'
  <2>1. /\ client # "gone" /\ ~Closed /\ Demand' = Demand /\ toServer' = toServer
    BY <1>1, <1>5, MoveCases DEF Says, Closed, Demand
  <2> DEFINE w == IF Weighs(m) THEN 1 ELSE 0
  <2>2. Weight(toClient') = Weight(toClient) + w
    <3>1. /\ toClient \in Seq(Texts) /\ toClient' \in Seq(Texts)
          /\ Len(toClient') = Len(toClient) + 1 /\ toClient'[Len(toClient')] = m
          /\ \A i \in 1..Len(toClient) : toClient'[i] = toClient[i]
      BY <1>0, <1>5, <2>1, WriteFacts DEF Says, TypeStrengthened
    <3> QED
      BY <3>1, WeightOfMore
  <2>3. server' # "closed"
    BY <1>1 DEF Closed
  <2>4. Promised = Promised' + w
    BY <1>5, <2>3, MoveCases DEF Says, Promised, Weighs
  <2>5. w \in Nat /\ Promised' \in Nat
    BY DEF Promised
  <2> HIDE DEF w
  <2> QED
    BY <1>2, <2>1, <2>2, <2>4, <2>5
<1>6. CASE ReadHello \/ ReadPrompt \/ ReadReply \/ ReadList
  <2>1. /\ toClient \in Seq(Texts) /\ toClient' \in Seq(Texts) /\ Len(toClient) \in Nat \ {0}
        /\ Len(toClient') = Len(toClient) - 1 /\ Head(toClient) = toClient[1]
        /\ \A i \in 1..Len(toClient) - 1 : toClient'[i] = toClient[i + 1]
        /\ UNCHANGED <<toServer, server, alive, lines>> /\ client # "gone"
    BY <1>0, <1>1, <1>6, FirstIsTaken DEF TypeStrengthened
  <2>0. PICK w \in 0..1 : w = IF Weighs(toClient[1]) THEN 1 ELSE 0
    OBVIOUS
  <2>2. Weight(toClient) = Weight(toClient') + w
    <3>1. Len(toClient) = Len(toClient') + 1 /\ \A i \in 1..Len(toClient') : toClient'[i] = toClient[i + 1]
      BY <2>1
    <3> QED
      BY <2>0, <2>1, <3>1, WeightOfLess
  <2>3. Promised' = Promised /\ ~Closed /\ Promised \in Nat
    BY <1>1, <2>1 DEF Promised, Closed
  <2>4. Demand >= Demand' + w
    <3>1. CASE ReadHello \/ ReadPrompt
      BY <2>0, <2>1, <3>1 DEF ReadHello, ReadPrompt, ReadThen, Demand, Weighs
    <3>2. CASE ReadReply
      BY <2>0, <2>1, <3>2 DEF ReadReply, AfterReply, Demand, Weighs
    <3>3. CASE ReadList
      <4>1. toClient[1].kind \in {"entry", "DONE"}
        <5>1. WithinList(0) /\ 0 \in 0..Len(toClient) /\ 0 # Len(toClient)
          BY <2>1, <3>3 DEF ReadList, WithinList
        <5> QED
          BY <1>0, <1>1, <2>1, <5>1 DEF ListsGoOn
      <4> QED
        BY <2>0, <2>1, <3>3, <4>1 DEF ReadList, AfterReply, Demand, Weighs
    <3> QED
      BY <1>6, <3>1, <3>2, <3>3
  <2>5. Weight(toClient') \in Nat /\ Demand' \in Nat
    BY <2>1, WeightType DEF Demand
  <2>6. Supply >= Demand /\ Len(toServer') = Len(toServer)
    BY <1>2, <2>1, <2>3
  <2>7. PICK room \in Nat, promise \in Nat : room = Len(toServer) /\ promise = Promised
    <3>1. Len(toServer) \in Nat /\ Promised \in Nat
      BY <1>2, <2>3
    <3> QED
      BY ONLY <3>1
  <2>8. PICK all \in Nat, less \in Nat : all = Weight(toClient) /\ less = Weight(toClient')
    <3>1. Weight(toClient) \in Nat /\ Weight(toClient') \in Nat
      BY <1>2, <2>5
    <3> QED
      BY ONLY <3>1
  <2>9. PICK due \in Nat, owed \in Nat : due = Demand /\ owed = Demand'
    <3>1. Demand \in Nat /\ Demand' \in Nat
      BY <1>2, <2>5
    <3> QED
      BY ONLY <3>1
  <2>10. Supply = all + 2 * room + promise
    BY ONLY <1>2, <2>7, <2>8
  <2>11. Supply' = less + 2 * room + promise
    BY ONLY <1>2, <2>3, <2>6, <2>7, <2>8
  <2>12. all = less + w /\ all + 2 * room + promise >= due /\ due >= owed + w
    BY ONLY <2>2, <2>4, <2>6, <2>8, <2>9, <2>10
  <2>13. less + 2 * room + promise >= owed
    BY ONLY <2>0, <2>12
  <2> QED
    BY ONLY <2>9, <2>11, <2>13
<1>7. CASE ReadEnd
  BY <1>1, <1>7 DEF ReadEnd, Closed
<1>8. ASSUME NEW key \in Keys, Command(key) \/ BatchLine(key) PROVE Supply' >= Demand'
  <2>1. Send(key) /\ ~Closed /\ UNCHANGED <<toClient, server>> /\ client' = "reply"
    BY <1>1, <1>8 DEF Command, BatchLine, Send, Closed
  <2>2. Len(toServer') = Len(toServer) + 1
    <3>1. toServer' = Append(toServer, Message(key, sent + 1)) /\ toServer' \in Seq(Words)
      BY <1>0, <2>1, SendFacts
    <3>2. Message(key, sent + 1) \in Words
      <4>1. sent \in Nat
        BY <1>0, TypeParts
      <4> QED
        BY <4>1 DEF Message, Words
    <3> QED
      BY <1>0, <3>1, <3>2, AppendProperties DEF TypeStrengthened
  <2>3. Promised' = Promised /\ Promised \in Nat /\ Demand' \in 0..2
    BY <2>1 DEF Promised, Demand
  <2> QED
    BY <1>2, <2>1, <2>2, <2>3
<1>9. ASSUME NEW b \in BatchSizes, Batch(b) PROVE Supply' >= Demand'
  <2>1. client' = "batch" /\ UNCHANGED <<toClient, toServer, server>>
    BY <1>1, <1>9 DEF Batch
  <2>2. Demand' = 0 /\ Supply' = Supply
    BY <1>2, <2>1 DEF Demand, Promised
  <2> QED
    BY <1>2, <2>2
<1>10. CASE Vanish \/ Reset \/ ServerEnds
  BY <1>1, <1>10 DEF Vanish, Reset, ServerEnds, GoesDown
<1>11. CASE UNCHANGED vars
  <2>1. Supply' = Supply /\ Demand' = Demand /\ client # "gone" /\ ~Closed
    BY <1>1, <1>11 DEF vars, Supply, Promised, Demand, Closed
  <2> QED
    BY <1>2, <2>1
<1> QED
  BY <1>0, <1>1, <1>3, <1>4, <1>5, <1>6, <1>7, <1>8, <1>9, <1>10, <1>11, ServerCases
     DEF Next, ClientStep, ClientReads

LEMMA NothingWeighsNothing == Weight(<<>>) = 0
<1>1. Heavy(<<>>) = {} /\ <<>> \in Seq(Texts)
  BY DEF Heavy
<1> QED
  BY <1>1, WeightType, FS_EmptySet

LEMMA ConnectionInit == Init => ConnectionStrengthened
<1> SUFFICES ASSUME Init PROVE ConnectionStrengthened
  OBVIOUS
<1>1. ListsGoOn
  BY DEF Init, ListsGoOn, WithinList
<1>2. Supply = 2 /\ Demand = 2
  BY NothingWeighsNothing DEF Init, Supply, Promised, Demand
<1> QED
  BY <1>1, <1>2, TypeInit DEF ConnectionStrengthened, EnoughIsOnTheWay

LEMMA ConnectionStep == ConnectionStrengthened /\ [Next]_vars => ConnectionStrengthened'
<1> SUFFICES ASSUME ConnectionStrengthened, [Next]_vars PROVE ConnectionStrengthened'
  OBVIOUS
<1>1. TypeStrengthened'
  BY TypeStep DEF ConnectionStrengthened
<1>2. ListsGoOn' /\ EnoughIsOnTheWay'
  <2>1. CASE OnCourse'
    BY <2>1, ListsStep, SupplyStep DEF ConnectionStrengthened
  <2>2. CASE ~OnCourse'
    BY <2>2 DEF ListsGoOn, EnoughIsOnTheWay
  <2> QED
    BY <2>1, <2>2
<1> QED
  BY <1>1, <1>2 DEF ConnectionStrengthened

LEMMA ConnectionFollows == ConnectionStrengthened => ConnectionInvariant
<1> SUFFICES ASSUME ConnectionStrengthened, lapses = {}, Waits,
                    server = "ended" \/ (server = "read" /\ toServer = <<>>)
             PROVE  FALSE
  BY DEF ConnectionInvariant, ConnectionStrengthened, TypeStrengthened, NoMutualWait
<1>1. Supply = 0
  <2>1. server = "read" /\ toServer = <<>>
    BY DEF ConnectionStrengthened, TypeStrengthened
  <2> QED
    BY <2>1, NothingWeighsNothing DEF Waits, Supply, Promised
<1>2. Demand \in {1, 2}
  BY DEF Waits, Demand
<1> QED
  BY <1>1, <1>2 DEF ConnectionStrengthened, EnoughIsOnTheWay, OnCourse, Waits

(***************************************************************************)
(* Client and server never both wait to read, nor the client for a thread  *)
(* that has ended, whatever files have put the client behind the prompts:  *)
(* unless a prompt or a DONE was left out or a CD not answered, a read     *)
(* threw a message away, or an empty file was sent.  Each of these is      *)
(* needed: any of them can leave the two waiting for each other.           *)
(***************************************************************************)
THEOREM NobodyWaitsForTheOther == Spec => []ConnectionInvariant
  BY ConnectionInit, ConnectionStep, ConnectionFollows, PTL DEF Spec

-----------------------------------------------------------------------------
(* The shared directory. *)

(* A thread copies only a base directory given as ".", and one that finds  *)
(* "." there has been told the start directory.                            *)
CopiesRoot ==
  /\ \A c \in Clients : Copies(c) => BaseArg = Dot
  /\ base_dir = Dot => \A c \in Clients : pc[c] = "test" => here[c] = Root

(* Who is about to go up has not been found in the base directory.         *)
UpIsChecked ==
  \A c \in Clients : pc[c] = "chdir" /\ new_dir[c] = Up /\ seen[c] = Root => here[c] # Root

DirectoryStrengthened == DirectoryInvariant /\ CopiesRoot /\ UpIsChecked /\ InsideIsPrompted

LEMMA DirectoryInitEstablishes == DirectoryInit => DirectoryStrengthened
<1> SUFFICES ASSUME DirectoryInit PROVE DirectoryStrengthened
  OBVIOUS
<1> USE SharedDirectoryAssumption DEF SharedDirectoryAssumption, DirectoryInit
<1>1. base_dir \in CASE BaseArg = Dot -> {Dot, Torn, Root}
                     [] BaseArg = FullPath -> {Root}
                     [] OTHER -> {OtherPath}
  BY DEF Dot, FullPath, OtherPath
<1>2. DirectoryTypeOK
  BY <1>1 DEF DirectoryTypeOK, PCs
<1>3. base_dir # Torn
  BY DEF Dot, Torn, FullPath, OtherPath
<1>4. \A c \in Clients : ~Copies(c) /\ ~Served(c) /\ pc[c] = "none"
  BY DEF Copies, Served
<1> QED
  BY <1>1, <1>2, <1>3, <1>4
     DEF DirectoryStrengthened, DirectoryInvariant, CopiesRoot, UpIsChecked, InsideIsPrompted

\* What the steps of one thread leave to the others.
LEMMA OneThreadMoves ==
  ASSUME DirectoryTypeOK, NEW c \in Clients, NEW from, NEW to \in PCs, Goto(c, from, to)
  PROVE  /\ pc' \in [Clients -> PCs] /\ pc[c] = from /\ pc'[c] = to
         /\ \A d \in Clients \ {c} : pc'[d] = pc[d]
  BY DEF Goto, DirectoryTypeOK

LEMMA DirectoryStepPreserves ==
  DirectoryStrengthened /\ [DirectoryNext]_directoryVars => DirectoryStrengthened'
<1> SUFFICES ASSUME DirectoryStrengthened, [DirectoryNext]_directoryVars
             PROVE DirectoryStrengthened'
  OBVIOUS
<1>a. /\ Root \in Inside /\ Inside \subseteq Directories /\ Root \in Directories
      /\ Dot \notin Directories /\ OtherPath \notin Directories /\ Torn \notin Directories
      /\ Dot # Torn /\ Dot # OtherPath /\ Dot # FullPath /\ FullPath # OtherPath /\ Torn # OtherPath
      /\ Inside \subseteq Beneath[Root] /\ Up \in Paths /\ MaxRequests \in Nat
      /\ Leads \in [Directories -> [Paths -> Directories \cup {Nowhere}]]
  BY SharedDirectoryAssumption
     DEF SharedDirectoryAssumption, Dot, Torn, OtherPath, FullPath
<1>t. /\ DirectoryTypeOK /\ CopiesRoot /\ UpIsChecked /\ InsideIsPrompted
      /\ cwd \in Directories /\ base_dir \in Directories \cup {Dot, Torn, OtherPath}
      /\ pc \in [Clients -> PCs] /\ here \in [Clients -> Directories]
      /\ new_dir \in [Clients -> Paths] /\ prompted \in [Clients -> BOOLEAN]
      /\ seen \in [Clients -> Directories \cup {Torn, OtherPath}]
      /\ requests \in [Clients -> 0..MaxRequests]
  BY DEF DirectoryStrengthened, DirectoryInvariant, DirectoryTypeOK
<1>b. /\ base_dir \in CASE BaseArg = Dot -> {Dot, Torn, Root}
                        [] BaseArg = FullPath -> {Root}
                        [] OTHER -> {OtherPath}
      /\ base_dir = Torn => \E c \in Clients : pc[c] = "copying"
      /\ \A c \in Clients : Copies(c) => here[c] = Root /\ BaseArg = Dot
      /\ base_dir = Dot => cwd = Root /\ \A c \in Clients : ~Served(c)
      /\ base_dir = Dot => \A c \in Clients : pc[c] = "test" => here[c] = Root
  BY DEF DirectoryStrengthened, DirectoryInvariant, CopiesRoot
<1>u. CASE UNCHANGED directoryVars
  BY <1>u DEF directoryVars, DirectoryStrengthened, DirectoryInvariant, DirectoryTypeOK, CopiesRoot,
              UpIsChecked, InsideIsPrompted, Copies, Served
<1>n. CASE DirectoryNext
  <2>1. PICK c \in Clients : Thread(c)
    BY <1>n DEF DirectoryNext
  \* A step that writes neither cwd nor base_dir, and keeps the program order.
  <2>q. ASSUME NEW to \in PCs,
               UNCHANGED <<cwd, base_dir>>, DirectoryTypeOK',
               pc' = [pc EXCEPT ![c] = to],
               \A d \in Clients \ {c} : /\ here'[d] = here[d] /\ new_dir'[d] = new_dir[d]
                                        /\ prompted'[d] = prompted[d] /\ seen'[d] = seen[d],
               pc[c] # "copying",
               to \in {"copy", "copying"} => here'[c] = Root /\ BaseArg = Dot,
               base_dir = Dot => to \in {"test", "copy", "copying", "gone"},
               base_dir = Dot /\ to = "test" => here'[c] = Root,
               to = "chdir" /\ new_dir'[c] = Up /\ seen'[c] = Root => here'[c] # Root,
               to = "read" /\ here'[c] \in Inside /\ seen'[c] \notin {Torn, OtherPath}
                 => prompted'[c]
        PROVE  DirectoryStrengthened'
    <3>1. /\ pc'[c] = to /\ \A d \in Clients \ {c} : pc'[d] = pc[d]
      BY <1>t, <2>q
    <3>2. base_dir' = Torn => \E d \in Clients : pc'[d] = "copying"
      BY <1>b, <2>q, <3>1
    <3>3. /\ \A d \in Clients : Copies(d)' => here'[d] = Root /\ BaseArg = Dot
          /\ base_dir' = Dot => cwd' = Root /\ \A d \in Clients : ~Served(d)'
          /\ base_dir' = Dot => \A d \in Clients : pc'[d] = "test" => here'[d] = Root
      BY <1>b, <2>q, <3>1 DEF Copies, Served
    <3>4. UpIsChecked'
      BY <1>t, <2>q, <3>1 DEF UpIsChecked
    <3>5. InsideIsPrompted'
      BY <1>t, <2>q, <3>1 DEF InsideIsPrompted
    <3> QED
      BY <1>b, <2>q, <3>2, <3>3, <3>4, <3>5
         DEF DirectoryStrengthened, DirectoryInvariant, CopiesRoot
  <2>r. ASSUME Reads(c) PROVE requests' \in [Clients -> 0..MaxRequests] /\ pc[c] = "read"
    <3>1. requests[c] + 1 \in 0..MaxRequests
      BY <1>a, <1>t, <2>r DEF Reads
    <3> QED
      BY <1>t, <2>r, <3>1 DEF Reads
  <2>2. CASE Accept(c)
    <3>1. PICK to \in {"test", "gone"} : pc' = [pc EXCEPT ![c] = to]
      BY <2>2 DEF Accept, GetCwd, Goto
    <3>2. DirectoryTypeOK'
      BY <1>t, <2>2, <3>1 DEF Accept, GetCwd, DirectoryTypeOK, PCs
    <3>3. /\ pc[c] = "none" /\ here' = [here EXCEPT ![c] = cwd]
          /\ UNCHANGED <<cwd, base_dir, new_dir, prompted, seen>>
      BY <2>2 DEF Accept, GetCwd, Goto
    <3>4. base_dir = Dot => here'[c] = Root
      BY <1>b, <1>t, <3>3
    <3>5. to \in PCs
      BY DEF PCs
    <3> QED
      BY <1>t, <2>q, <3>1, <3>2, <3>3, <3>4, <3>5
  <2>3. CASE TestBase(c)
    <3>1. PICK to \in {"copy", "look"} :
            pc' = [pc EXCEPT ![c] = to] /\ (to = "copy" <=> base_dir = Dot)
      BY <2>3 DEF TestBase, Goto
    <3>2. DirectoryTypeOK'
      BY <1>t, <2>3, <3>1 DEF TestBase, DirectoryTypeOK, PCs
    <3>3. /\ pc[c] = "test"
          /\ UNCHANGED <<cwd, base_dir, here, new_dir, prompted, seen>>
      BY <2>3 DEF TestBase, Goto
    <3>4. to = "copy" => here[c] = Root /\ BaseArg = Dot
      BY <1>a, <1>b, <3>1, <3>3
    <3>5. to \in PCs
      BY DEF PCs
    <3> QED
      BY <1>t, <2>q, <3>1, <3>2, <3>3, <3>4, <3>5
  <2>4. CASE CopyBegin(c)
    <3>1. /\ pc[c] = "copy" /\ pc' = [pc EXCEPT ![c] = "copying"]
          /\ base_dir' = IF base_dir = here[c] THEN base_dir ELSE Torn
          /\ UNCHANGED <<cwd, here, new_dir, prompted, seen, requests>>
      BY <2>4 DEF CopyBegin, Goto
    <3>2. here[c] = Root /\ BaseArg = Dot /\ base_dir' \in {Torn, Root}
      BY <1>b, <3>1 DEF Copies
    <3>3. pc'[c] = "copying" /\ \A d \in Clients \ {c} : pc'[d] = pc[d]
      BY <1>t, <3>1
    <3>4. DirectoryTypeOK'
      BY <1>a, <1>t, <3>1, <3>2 DEF DirectoryTypeOK, PCs
    <3>5. base_dir' # Dot
      BY <1>a, <3>2
    <3>6. \A d \in Clients : Copies(d)' => here'[d] = Root /\ BaseArg = Dot
      BY <1>b, <3>1, <3>2, <3>3 DEF Copies
    <3>7. UpIsChecked' /\ InsideIsPrompted'
      BY <1>t, <3>1, <3>3 DEF UpIsChecked, InsideIsPrompted
    <3>8. base_dir' = Torn => \E d \in Clients : pc'[d] = "copying"
      BY <3>3
    <3>9. base_dir' \in CASE BaseArg = Dot -> {Dot, Torn, Root}
                          [] BaseArg = FullPath -> {Root}
                          [] OTHER -> {OtherPath}
      BY <1>a, <3>2
    <3>10. DirectoryInvariant'
      BY <3>4, <3>5, <3>6, <3>8, <3>9 DEF DirectoryInvariant
    <3>11. CopiesRoot'
      BY <3>5, <3>6 DEF CopiesRoot
    <3> QED
      BY <3>7, <3>10, <3>11 DEF DirectoryStrengthened
  <2>5. CASE CopyEnd(c)
    <3>1. /\ pc[c] = "copying" /\ pc' = [pc EXCEPT ![c] = "look"]
          /\ base_dir' = here[c]
          /\ UNCHANGED <<cwd, here, new_dir, prompted, seen, requests>>
      BY <2>5 DEF CopyEnd, Goto
    <3>2. here[c] = Root /\ BaseArg = Dot /\ base_dir' = Root
      BY <1>b, <3>1 DEF Copies
    <3>3. pc'[c] = "look" /\ \A d \in Clients \ {c} : pc'[d] = pc[d]
      BY <1>t, <3>1
    <3>4. DirectoryTypeOK'
      BY <1>a, <1>t, <3>1, <3>2 DEF DirectoryTypeOK, PCs
    <3>5. base_dir' # Dot /\ base_dir' # Torn
      BY <1>a, <3>2
    <3>6. \A d \in Clients : Copies(d)' => here'[d] = Root /\ BaseArg = Dot
      BY <1>b, <3>1, <3>2, <3>3 DEF Copies
    <3>7. UpIsChecked' /\ InsideIsPrompted'
      BY <1>t, <3>1, <3>3 DEF UpIsChecked, InsideIsPrompted
    <3>8. base_dir' \in CASE BaseArg = Dot -> {Dot, Torn, Root}
                          [] BaseArg = FullPath -> {Root}
                          [] OTHER -> {OtherPath}
      BY <1>a, <3>2
    <3> QED
      BY <3>4, <3>5, <3>6, <3>7, <3>8
         DEF DirectoryStrengthened, DirectoryInvariant, CopiesRoot
  <2>6. CASE Look(c)
    <3>1. PICK to \in {"prompt", "gone"} : pc' = [pc EXCEPT ![c] = to]
      BY <2>6 DEF Look, GetCwd, Goto
    <3>2. DirectoryTypeOK'
      BY <1>t, <2>6, <3>1 DEF Look, GetCwd, DirectoryTypeOK, PCs
    <3>3. /\ pc[c] = "look" /\ here' = [here EXCEPT ![c] = cwd]
          /\ UNCHANGED <<cwd, base_dir, new_dir, prompted, seen>>
      BY <2>6 DEF Look, GetCwd, Goto
    <3>4. base_dir # Dot
      BY <1>b, <3>3 DEF Served
    <3>5. to \in PCs
      BY DEF PCs
    <3> QED
      BY <1>t, <2>q, <3>1, <3>2, <3>3, <3>4, <3>5
  <2>7. CASE ShowPrompt(c)
    <3>1. PICK begins \in BeginsWithBase(here[c]) :
            /\ prompted' = [prompted EXCEPT ![c] = begins]
            /\ pc[c] = "prompt" /\ pc' = [pc EXCEPT ![c] = "read"]
            /\ seen' = [seen EXCEPT ![c] = base_dir]
            /\ UNCHANGED <<cwd, base_dir, here, new_dir, requests>>
      BY <2>7 DEF ShowPrompt, Goto
    <3>2. base_dir # Dot
      BY <1>b, <3>1 DEF Served
    <3>3. begins \in BOOLEAN
      BY DEF BeginsWithBase
    <3>4. DirectoryTypeOK'
      BY <1>t, <3>1, <3>2, <3>3 DEF DirectoryTypeOK, PCs
    <3>5. base_dir \in {Torn, OtherPath, Root}
      BY <1>b, <3>2
    <3>6. here[c] \in Inside /\ base_dir \notin {Torn, OtherPath} => begins
      BY <1>a, <3>1, <3>5 DEF BeginsWithBase
    <3>7. seen'[c] = base_dir /\ (prompted'[c] <=> begins) /\ "read" \in PCs
      BY <1>t, <3>1, <3>3 DEF PCs
    <3> QED
      BY <1>t, <2>q, <3>1, <3>2, <3>4, <3>6, <3>7
  <2>8. CASE Check(c)
    <3>1. PICK same \in IsBase(here[c]) :
            /\ pc[c] = "check"
            /\ pc' = [pc EXCEPT ![c] = IF same /\ new_dir[c] = Up THEN "look" ELSE "chdir"]
            /\ seen' = [seen EXCEPT ![c] = base_dir]
            /\ UNCHANGED <<cwd, base_dir, here, new_dir, prompted, requests>>
      BY <2>8 DEF Check, Goto
    <3>2. base_dir # Dot
      BY <1>b, <3>1 DEF Served
    <3>3. PICK to \in {"look", "chdir"} : to = IF same /\ new_dir[c] = Up THEN "look" ELSE "chdir"
      OBVIOUS
    <3>4. DirectoryTypeOK'
      BY <1>t, <3>1, <3>2, <3>3 DEF DirectoryTypeOK, PCs
    <3>5. to = "chdir" /\ new_dir[c] = Up /\ base_dir = Root => here[c] # Root
      BY <1>a, <3>1, <3>3 DEF IsBase
    <3>6. seen'[c] = base_dir /\ to \in PCs
      BY <1>t, <3>1, <3>3 DEF PCs
    <3> QED
      BY <1>t, <2>q, <3>1, <3>2, <3>3, <3>4, <3>5, <3>6
  <2>9. CASE Chdir(c)
    <3>1. /\ pc[c] = "chdir" /\ pc' = [pc EXCEPT ![c] = "look"]
          /\ cwd' = IF Leads[cwd][new_dir[c]] = Nowhere THEN cwd ELSE Leads[cwd][new_dir[c]]
          /\ UNCHANGED <<base_dir, here, new_dir, prompted, seen, requests>>
      BY <2>9 DEF Chdir, Goto
    <3>2. cwd' \in Directories
      <4>1. Leads[cwd][new_dir[c]] \in Directories \cup {Nowhere}
        BY <1>a, <1>t
      <4> QED
        BY <1>t, <3>1, <4>1
    <3>3. pc'[c] = "look" /\ \A d \in Clients \ {c} : pc'[d] = pc[d]
      BY <1>t, <3>1
    <3>4. DirectoryTypeOK'
      BY <1>t, <3>1, <3>2 DEF DirectoryTypeOK, PCs
    <3>5. base_dir' # Dot
      BY <1>b, <3>1 DEF Served
    <3>6. \A d \in Clients : Copies(d)' => here'[d] = Root /\ BaseArg = Dot
      BY <1>b, <3>1, <3>3 DEF Copies
    <3>7. UpIsChecked' /\ InsideIsPrompted'
      BY <1>t, <3>1, <3>3 DEF UpIsChecked, InsideIsPrompted
    <3>8. base_dir' = Torn => \E d \in Clients : pc'[d] = "copying"
      BY <1>b, <3>1, <3>3
    <3> QED
      BY <1>b, <3>1, <3>4, <3>5, <3>6, <3>7, <3>8
         DEF DirectoryStrengthened, DirectoryInvariant, CopiesRoot
  <2>10. CASE OtherCommand(c) \/ Quit(c)
    <3>1. PICK to \in {"look", "gone"} : pc' = [pc EXCEPT ![c] = to]
      BY <2>10 DEF OtherCommand, Quit, Goto
    <3>2. Reads(c) /\ UNCHANGED <<cwd, base_dir, here, new_dir, prompted, seen>>
      BY <2>10 DEF OtherCommand, Quit
    <3>3. DirectoryTypeOK'
      BY <1>t, <2>r, <3>1, <3>2 DEF DirectoryTypeOK, PCs
    <3>4. pc[c] = "read" /\ base_dir # Dot
      BY <1>b, <2>r, <3>2 DEF Served
    <3>5. to \in PCs
      BY DEF PCs
    <3> QED
      BY <1>t, <2>q, <3>1, <3>2, <3>3, <3>4, <3>5
  <2>11. CASE \E path \in Paths : Cd(c, path)
    <3>1. PICK path \in Paths : Cd(c, path)
      BY <2>11
    <3>2. PICK to \in {"check", "look"} : pc' = [pc EXCEPT ![c] = to]
      BY <3>1 DEF Cd, GetCwd, Goto
    <3>3. /\ Reads(c) /\ UNCHANGED <<cwd, base_dir, prompted, seen>>
          /\ here' = [here EXCEPT ![c] = cwd] /\ new_dir' = [new_dir EXCEPT ![c] = path]
      BY <3>1 DEF Cd, GetCwd
    <3>4. DirectoryTypeOK'
      BY <1>t, <2>r, <3>2, <3>3 DEF DirectoryTypeOK, PCs
    <3>5. pc[c] = "read" /\ base_dir # Dot
      BY <1>b, <2>r, <3>3 DEF Served
    <3>6. to \in PCs
      BY DEF PCs
    <3> QED
      BY <1>t, <2>q, <3>2, <3>3, <3>4, <3>5, <3>6
  <2> QED
    BY <2>1, <2>2, <2>3, <2>4, <2>5, <2>6, <2>7, <2>8, <2>9, <2>10, <2>11 DEF Thread
<1> QED BY <1>u, <1>n

(***************************************************************************)
(* base_dir goes from "." to the start directory and to nothing else, for  *)
(* any tree and any number of clients, though any of them may write it     *)
(* late, while others have moved the process.                              *)
(***************************************************************************)
THEOREM DirectoryInvariantHolds == DirectorySpec => []DirectoryInvariant
<1>1. DirectoryStrengthened => DirectoryInvariant
  BY DEF DirectoryStrengthened
<1> QED
  BY <1>1, DirectoryInitEstablishes, DirectoryStepPreserves, PTL DEF DirectorySpec

(***************************************************************************)
(* The variables keep their types.                                         *)
(***************************************************************************)
THEOREM DirectoryTypeCorrect == DirectorySpec => []DirectoryTypeOK
<1>1. DirectoryInvariant => DirectoryTypeOK
  BY DEF DirectoryInvariant
<1> QED BY <1>1, DirectoryInvariantHolds, PTL

(***************************************************************************)
(* A client inside the base directory has its prompt, wherever other       *)
(* clients move the process, unless base_dir was half copied or is not the *)
(* full path.                                                              *)
(***************************************************************************)
THEOREM InsideIsPromptedHolds == DirectorySpec => []InsideIsPrompted
<1>1. DirectoryStrengthened => InsideIsPrompted
  BY DEF DirectoryStrengthened
<1> QED
  BY <1>1, DirectoryInitEstablishes, DirectoryStepPreserves, PTL DEF DirectorySpec

\* Only chdir moves the process.
LEMMA OnlyChdirMoves ==
  ASSUME NEW c \in Clients, Thread(c), cwd' # cwd
  PROVE  Chdir(c)
  BY DEF Thread, Accept, TestBase, CopyBegin, CopyEnd, Look, ShowPrompt, Check, OtherCommand, Quit, Cd

LEMMA UpStep ==
  ASSUME DirectoryStrengthened, DirectoryNext, LeavesBase
  PROVE  \E c \in Clients : MayLeave(c)
<1>1. PICK c \in Clients : Chdir(c)
  BY OnlyChdirMoves DEF DirectoryNext, LeavesBase
<1>2. /\ pc[c] = "chdir" /\ pc'[c] = "look"
      /\ cwd' = IF Leads[cwd][new_dir[c]] = Nowhere THEN cwd ELSE Leads[cwd][new_dir[c]]
  BY <1>1 DEF Chdir, Goto, DirectoryStrengthened, DirectoryInvariant, DirectoryTypeOK
<1>3. ASSUME new_dir[c] = Up, here[c] = cwd, seen[c] = Root PROVE FALSE
  <2>1. cwd \in Inside \ {Root}
    BY <1>2, <1>3 DEF LeavesBase, DirectoryStrengthened, UpIsChecked
  <2>2. Leads[cwd][Up] \in Inside \cup {Nowhere}
    BY <2>1, SharedDirectoryAssumption DEF SharedDirectoryAssumption
  <2> QED
    BY <1>2, <1>3, <2>1, <2>2 DEF LeavesBase
<1> QED
  BY <1>2, <1>3 DEF MayLeave

(***************************************************************************)
(* ".." takes nobody out of the base directory, unless another client      *)
(* moved the process between the check and the chdir, or base_dir was half *)
(* copied, or not the full path, at the check.                             *)
(***************************************************************************)
THEOREM UpStopsAtRootHolds == DirectorySpec => UpStopsAtRoot
<1>1. DirectoryStrengthened /\ [DirectoryNext]_directoryVars
        => [LeavesBase => \E c \in Clients : MayLeave(c)]_directoryVars
  BY UpStep
<1> QED
  BY <1>1, DirectoryInitEstablishes, DirectoryStepPreserves, PTL DEF DirectorySpec, UpStopsAtRoot

=============================================================================
