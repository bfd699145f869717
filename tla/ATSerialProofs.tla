---------------------------- MODULE ATSerialProofs ----------------------------
(***************************************************************************)
(* Theorems about ATSerial: a host that waits for its answers and the      *)
(* module agree on every byte; with any host the types are correct, and no *)
(* buffer overflows.                                                       *)
(***************************************************************************)
EXTENDS ATSerial, SequenceTheorems, TLAPS

\* What was read, what is under way and what is still to come.
Joined(a, b, d) == a \o b \o d

LEMMA ReadByte ==
  ASSUME NEW T, NEW a \in Seq(T), NEW b \in Seq(T), NEW d \in Seq(T), b # <<>>
  PROVE  /\ Joined(Append(a, Head(b)), Tail(b), d) = Joined(a, b, d)
         /\ Joined(a, b, d)[Len(a) + 1] = Head(b)
         /\ Head(b) \in T /\ Tail(b) \in Seq(T)
         /\ Append(a, Head(b)) \in Seq(T)
         /\ Len(Tail(b)) = Len(b) - 1
         /\ Len(Append(a, Head(b))) = Len(a) + 1
<1>1. Head(b) \in T /\ Tail(b) \in Seq(T) /\ Append(a, Head(b)) \in Seq(T) /\ Len(b) >= 1
  OBVIOUS
<1>2. Append(a, Head(b)) \o Tail(b) = a \o b
  <2> DEFINE s == Append(a, Head(b)) \o Tail(b)
             t == a \o b
  <2>1. s \in Seq(T) /\ t \in Seq(T)
    BY <1>1
  <2>2. Len(s) = Len(t)
    BY <1>1
  <2>3. \A n \in 1..Len(s) : s[n] = t[n]
    BY <1>1
  <2> QED
    BY <2>1, <2>2, <2>3, SeqEqual
<1>3. (a \o b \o d)[Len(a) + 1] = Head(b)
  BY <1>1
<1>4. Joined(Append(a, Head(b)), Tail(b), d) = Joined(a, b, d)
  BY <1>2 DEF Joined
<1>5. Joined(a, b, d)[Len(a) + 1] = Head(b)
  BY <1>3 DEF Joined
<1>6. Len(Tail(b)) = Len(b) - 1 /\ Len(Append(a, Head(b))) = Len(a) + 1
  BY <1>1
<1> QED
  BY <1>1, <1>4, <1>5, <1>6, Zenon

LEMMA SendByte ==
  ASSUME NEW T, NEW a \in Seq(T), NEW b \in Seq(T), NEW d \in Seq(T), d # <<>>
  PROVE  /\ Joined(a, Append(b, Head(d)), Tail(d)) = Joined(a, b, d)
         /\ Append(b, Head(d)) \in Seq(T) /\ Tail(d) \in Seq(T)
         /\ Len(Tail(d)) = Len(d) - 1
<1>1. Head(d) \in T /\ Tail(d) \in Seq(T) /\ Append(b, Head(d)) \in Seq(T) /\ Len(d) >= 1
  OBVIOUS
<1> DEFINE s == a \o Append(b, Head(d)) \o Tail(d)
           t == a \o b \o d
<1>2. s \in Seq(T) /\ t \in Seq(T)
  BY <1>1
<1>3. Len(s) = Len(t)
  BY <1>1
<1>4. ASSUME NEW n \in 1..Len(s)
      PROVE  s[n] = t[n]
  <2>1. CASE n <= Len(a) + Len(b)
    BY <1>1, <2>1
  <2>2. CASE n = Len(a) + Len(b) + 1
    BY <1>1, <2>2
  <2>3. CASE n > Len(a) + Len(b) + 1
    <3>1. s[n] = Tail(d)[n - (Len(a) + Len(b) + 1)]
      BY <1>1, <2>3
    <3>2. n - (Len(a) + Len(b) + 1) \in 1..(Len(d) - 1)
      BY <1>1, <1>3, <2>3
    <3>3. Tail(d)[n - (Len(a) + Len(b) + 1)] = d[n - (Len(a) + Len(b))]
      BY <1>1, <3>2
    <3>4. t[n] = d[n - (Len(a) + Len(b))]
      BY <1>1, <2>3, <3>2
    <3> QED
      BY <3>1, <3>3, <3>4
  <2> QED
    BY <2>1, <2>2, <2>3
<1>5. s = t
  <2> HIDE DEF s, t
  <2> QED
    BY <1>2, <1>3, <1>4, SeqEqual
<1>6. Joined(a, Append(b, Head(d)), Tail(d)) = Joined(a, b, d)
  BY <1>5 DEF Joined
<1>7. Len(Tail(d)) = Len(d) - 1
  BY <1>1
<1> QED
  BY <1>1, <1>6, <1>7, Zenon

LEMMA Lengths ==
  ASSUME NEW T, NEW a \in Seq(T), NEW b \in Seq(T), NEW d \in Seq(T)
  PROVE  /\ Len(Joined(a, b, d)) = Len(a) + Len(b) + Len(d)
         /\ Len(a) \in Nat /\ Len(b) \in Nat /\ Len(d) \in Nat
         /\ a # <<>> <=> Len(a) >= 1
         /\ b # <<>> <=> Len(b) >= 1
         /\ d # <<>> <=> Len(d) >= 1
         /\ \A n \in 1..Len(a) : Joined(a, b, d)[n] = a[n]
BY DEF Joined

LEMMA Empties ==
  ASSUME NEW T, NEW a \in Seq(T)
  PROVE  Joined(a, <<>>, <<>>) = a /\ Joined(<<>>, <<>>, a) = a /\ <<>> \in Seq(T)
BY ConcatEmptySeq DEF Joined

-----------------------------------------------------------------------------
(* What the host sends                                                     *)

ByteT == [ch : {"A", "LF", "c", "p", "m", "x", "i", "E"}, kind : AllKinds, n : Nat]
Texts == Seq(ByteT)

PatientKinds == {"plain", "join", "scan", "send", "cert"}

LEMMA LineFacts ==
  ASSUME NEW k \in PatientKinds
  PROVE  /\ Line(k) \in Texts /\ Len(Line(k)) = 3
         /\ Line(k)[1].ch = "A" /\ Line(k)[2].ch = "c" /\ Line(k)[3].ch = "LF"
         /\ \A other \in AllKinds : Line(k) = Line(other) => k = other
<1>1. k # "long" /\ k \in AllKinds
  BY DEF PatientKinds, AllKinds, AllStyles, Kinds
<1>2. LineLength(k) = 3
  BY <1>1 DEF LineLength
<1>3. Line(k) = [n \in 1..3 |-> Byte(IF n = 1 THEN "A" ELSE IF n = 3 THEN "LF" ELSE "c", k, n)]
  BY <1>2 DEF Line
<1>4. \A n \in 1..3 : Line(k)[n] \in ByteT
  BY <1>1, <1>3 DEF Byte, ByteT
<1>5. Line(k) \in Texts
  BY <1>3, <1>4 DEF Texts
<1>6. Len(Line(k)) = 3
  BY <1>3
<1>7. Line(k)[1].ch = "A" /\ Line(k)[2].ch = "c" /\ Line(k)[3].ch = "LF" /\ Line(k)[1].kind = k
  BY <1>3 DEF Byte
<1>8. ASSUME NEW other \in AllKinds, Line(k) = Line(other)
      PROVE  k = other
  <2>1. 1 \in 1..LineLength(other)
    BY SerialAssumption DEF LineLength
  <2>2. Line(other)[1].kind = other
    BY <2>1 DEF Line, Byte
  <2> QED
    BY <1>7, <1>8, <2>2
<1> QED
  BY <1>5, <1>6, <1>7, <1>8

LEMMA PayloadFacts == Payload \in Texts /\ Len(Payload) = SendLength /\ SendLength >= 1
<1>1. SendLength \in Nat /\ SendLength >= 1
  BY SerialAssumption
<1>2. "send" \in AllKinds
  BY DEF AllKinds, AllStyles, Kinds
<1>3. \A n \in 1..SendLength : Payload[n] \in ByteT
  BY <1>1, <1>2 DEF Payload, Byte, ByteT
<1> QED
  BY <1>1, <1>3 DEF Payload, Texts

LEMMA CertFacts ==
  /\ CertText("m") \in Texts /\ Len(CertText("m")) = 2
  /\ CertText("m")[1].ch = "m" /\ CertText("m")[2].ch = "E"
<1>1. "cert" \in AllKinds
  BY DEF AllKinds, AllStyles, Kinds
<1>2. Byte("m", "cert", 1) \in ByteT /\ Byte("E", "cert", 2) \in ByteT
  BY <1>1 DEF Byte, ByteT
<1> QED
  BY <1>2 DEF CertText, Texts, Byte

-----------------------------------------------------------------------------
(***************************************************************************)
(* The invariant: where each byte of what a patient host sends is, in      *)
(* every phase of its command.                                             *)
(***************************************************************************)
Quiet == reading = -1 /\ ~gsCertLoading

NoJob == ~gsFlag_Busy /\ ~gsFlag_Connecting /\ ~scanning

Job ==
  /\ gsFlag_Busy
  /\ \/ kind = "join" /\ gsFlag_Connecting /\ ~scanning
     \/ kind = "scan" /\ scanning /\ ~gsFlag_Connecting

IdleInv == Quiet /\ NoJob /\ todo = <<>> /\ uart = <<>> /\ inputBuffer = <<>>

LineInv == Quiet /\ NoJob /\ todo # <<>> /\ Joined(inputBuffer, uart, todo) = Line(kind)

ReplyInv ==
  /\ Quiet /\ todo = <<>>
  /\ \/ NoJob /\ Joined(inputBuffer, uart, todo) = Line(kind)
     \/ Job /\ inputBuffer = <<>> /\ uart = <<>>

DataInv ==
  /\ NoJob /\ inputBuffer = <<>>
  /\ pc = "discard" => uart = <<>>
  /\ \/ /\ kind = "send" /\ reading = SendLength /\ ~gsCertLoading
        /\ Joined(sendBuffer, uart, todo) = Payload
     \/ /\ kind = "cert" /\ reading = -1 /\ gsCertLoading
        /\ Joined(PemCertificate, uart, todo) = CertText("m")

PhaseInv ==
  /\ phase = "idle" => IdleInv
  /\ phase = "line" => LineInv
  /\ phase = "reply" => ReplyInv
  /\ phase \in {"data", "result"} => DataInv
  /\ phase = "result" => todo = <<>>

LoopInv ==
  /\ pc = "discard" => inputBuffer = <<>>
  /\ lineCompleted /\ pc \in {"serial", "connect", "command"} =>
       phase = "reply" /\ NoJob /\ uart = <<>>

Typed ==
  /\ phase \in {"idle", "line", "reply", "data", "result"}
  /\ kind \in PatientKinds
  /\ todo \in Texts /\ uart \in Texts /\ inputBuffer \in Texts
  /\ sendBuffer \in Texts /\ PemCertificate \in Texts

Agreed == Typed /\ PhaseInv /\ LoopInv

SyncInv == style = "patient" => Agreed

LEMMA PatientFacts == Kinds("patient") = PatientKinds /\ Certs("patient") = {"m"}
BY DEF Kinds, Certs, PatientKinds

-----------------------------------------------------------------------------
(* The steps of the host                                                   *)

LEMMA HostStartsStep ==
  ASSUME Agreed, style = "patient", NEW k \in AllKinds, HostStarts(k)
  PROVE  Agreed'
<1>1. k \in PatientKinds /\ Line(k) \in Texts /\ Len(Line(k)) = 3
  BY PatientFacts, LineFacts DEF HostStarts
<1>2. Line(k) # <<>>
  BY <1>1
<1>3. Joined(<<>>, <<>>, Line(k)) = Line(k)
  BY <1>1, Empties DEF Texts
<1>4. Typed'
  BY <1>1 DEF HostStarts, Agreed, Typed, send, cert
<1>5. IdleInv
  BY DEF HostStarts, Agreed, PhaseInv
<1>6. LineInv' /\ phase' = "line"
  BY <1>2, <1>3, <1>5 DEF HostStarts, IdleInv, LineInv, Quiet, NoJob, send, cert, jobs
<1>7. LoopInv'
  BY DEF HostStarts, Agreed, LoopInv
<1> QED
  BY <1>4, <1>6, <1>7 DEF Agreed, PhaseInv

LEMMA HostSendsStep ==
  ASSUME Agreed, style = "patient", HostSends
  PROVE  Agreed'
<1>1. /\ todo # <<>> /\ uart' = Append(uart, Head(todo)) /\ todo' = Tail(todo)
      /\ UNCHANGED <<style, kind, pc, lineCompleted, inputBuffer, reading, sendBuffer,
                     gsCertLoading, PemCertificate, gsFlag_Connecting, scanning, gsFlag_Busy>>
  BY DEF HostSends, send, cert, jobs
<1>a. uart \in Seq(ByteT) /\ todo \in Seq(ByteT)
  BY DEF Agreed, Typed, Texts
<1>2. ASSUME NEW a \in Seq(ByteT)
      PROVE  Joined(a, uart', todo') = Joined(a, uart, todo)
  <2>1. Joined(a, Append(uart, Head(todo)), Tail(todo)) = Joined(a, uart, todo)
    <3>1. todo # <<>>
      BY <1>1
    <3> QED
      BY <1>a, <3>1, SendByte, SMT
  <2> QED
    BY <1>1, <2>1, Zenon
<1>3. uart' \in Texts /\ todo' \in Texts /\ Len(todo') = Len(todo) - 1
  <2>1. uart' \in Seq(ByteT) /\ todo' \in Seq(ByteT) /\ Len(todo') = Len(todo) - 1
    BY <1>1, <1>a
  <2> QED
    BY <2>1 DEF Texts
<1>4. Len(todo) \in Nat
  BY DEF Agreed, Typed, Texts
<1>5. phase \in {"line", "data", "result"}
  BY <1>1 DEF Agreed, Typed, PhaseInv, IdleInv, ReplyInv
<1>6. Typed'
  BY <1>1, <1>3, <1>4, <1>5 DEF HostSends, Agreed, Typed
<1>7. LoopInv'
  BY <1>1, <1>5 DEF Agreed, LoopInv
<1>8. CASE phase = "line"
  <2>1. LineInv
    BY <1>8 DEF Agreed, PhaseInv
  <2>2. Joined(inputBuffer, uart', todo') = Line(kind)
    BY <1>2, <2>1 DEF LineInv, Agreed, Typed, Texts
  <2>3. CASE Len(todo) > 1
    <3>a. phase' = "line"
      BY <1>8, <2>3 DEF HostSends
    <3>b. todo' # <<>>
      <4>1. Len(<<>>) = 0
        OBVIOUS
      <4> QED
        BY <1>3, <1>4, <2>3, <4>1
    <3>1. phase' = "line" /\ todo' # <<>>
      BY <3>a, <3>b
    <3>2. LineInv'
      BY <1>1, <2>1, <2>2, <3>1 DEF LineInv, Quiet, NoJob
    <3> QED
      BY <1>6, <1>7, <3>1, <3>2 DEF Agreed, PhaseInv
  <2>4. CASE ~(Len(todo) > 1)
    <3>1. phase' = "reply" /\ todo' = <<>>
      BY <1>3, <1>4, <1>8, <2>4 DEF HostSends, Texts
    <3>2. ReplyInv'
      BY <1>1, <2>1, <2>2, <3>1 DEF LineInv, ReplyInv, Quiet, NoJob
    <3> QED
      BY <1>6, <1>7, <3>1, <3>2 DEF Agreed, PhaseInv
  <2> QED
    BY <2>3, <2>4
<1>9. CASE phase \in {"data", "result"}
  <2>1. DataInv /\ pc # "discard"
    <3>1. DataInv
      BY <1>9 DEF Agreed, PhaseInv
    <3>2. phase = "data" => pc # "discard"
      BY DEF HostSends
    <3>3. phase = "result" => todo = <<>>
      BY DEF Agreed, PhaseInv
    <3> QED
      BY <1>1, <1>9, <3>1, <3>2, <3>3
  <2>2. DataInv'
    BY <1>1, <1>2, <2>1 DEF DataInv, NoJob, Agreed, Typed, Texts
  <2>3. phase' \in {"data", "result"} /\ (phase' = "result" => todo' = <<>>)
    <3>1. phase = "data"
      BY <1>1, <1>9 DEF Agreed, PhaseInv
    <3>2. CASE Len(todo) > 1
      BY <3>1, <3>2 DEF HostSends
    <3>3. CASE ~(Len(todo) > 1)
      BY <1>3, <1>4, <3>1, <3>3 DEF HostSends, Texts
    <3> QED
      BY <3>2, <3>3
  <2> QED
    BY <1>6, <1>7, <2>2, <2>3 DEF Agreed, PhaseInv
<1> QED
  BY <1>5, <1>8, <1>9

-----------------------------------------------------------------------------
(* The steps of loop() that read no byte and run no command                *)

InPass == lineCompleted /\ pc \in {"serial", "connect", "command"}

LEMMA PassStep ==
  ASSUME Agreed, UNCHANGED <<phase, kind, todo, uart, inputBuffer, reading, sendBuffer>>,
         UNCHANGED <<gsCertLoading, PemCertificate, gsFlag_Connecting, scanning, gsFlag_Busy>>,
         pc' # "discard", InPass' => InPass
  PROVE  Agreed'
<1>1. Typed'
  BY DEF Agreed, Typed
<1>2. LoopInv'
  BY DEF Agreed, LoopInv, InPass, NoJob
<1>3. /\ IdleInv => IdleInv'
      /\ LineInv => LineInv'
      /\ ReplyInv => ReplyInv'
      /\ DataInv => DataInv'
  BY DEF IdleInv, LineInv, ReplyInv, DataInv, Quiet, NoJob, Job
<1>4. PhaseInv'
  BY <1>3 DEF Agreed, PhaseInv
<1> QED
  BY <1>1, <1>2, <1>4 DEF Agreed

\* Nothing comes while a job runs, and while data is awaited the UART is empty;
\* a line that comes at the end of a command is not garbage.
LEMMA NoGarbage ==
  ASSUME Agreed, pc = "discard", uart # <<>>
  PROVE  c.ch = "A"
<1>1. inputBuffer = <<>> /\ kind \in PatientKinds
  BY DEF Agreed, Typed, LoopInv
<1>2. Joined(inputBuffer, uart, todo) = Line(kind)
  BY DEF Agreed, Typed, PhaseInv, IdleInv, LineInv, ReplyInv, DataInv
<1>3. inputBuffer \in Seq(ByteT) /\ uart \in Seq(ByteT) /\ todo \in Seq(ByteT)
  BY DEF Agreed, Typed, Texts
<1>4. Joined(inputBuffer, uart, todo)[Len(inputBuffer) + 1] = Head(uart)
  BY <1>3, ReadByte, SMT
<1>5. Line(kind)[1] = Head(uart)
  BY <1>1, <1>2, <1>4
<1> QED
  BY <1>1, <1>5, LineFacts DEF c

LEMMA PassSteps ==
  ASSUME Agreed, style = "patient",
         Links \/ SerialEnd \/ JoinPending \/ NoLine \/ RefuseLine \/ DiscardByte \/ DiscardEnd
  PROVE  Agreed'
<1>1. CASE Links
  BY <1>1, PassStep DEF Links, host, send, cert, jobs, InPass
<1>2. CASE SerialEnd
  BY <1>2, PassStep DEF SerialEnd, host, send, cert, jobs, InPass
<1>3. CASE JoinPending
  BY <1>3, PassStep DEF JoinPending, host, send, cert, jobs, InPass
<1>4. CASE NoLine
  BY <1>4, PassStep DEF NoLine, host, send, cert, jobs, InPass
<1>5. CASE RefuseLine
  <2>1. inputBuffer = <<>>
    BY <1>5 DEF RefuseLine, Agreed, Typed, PhaseInv, IdleInv, LineInv, ReplyInv, DataInv, NoJob
  <2> QED
    BY <1>5, <2>1, PassStep DEF RefuseLine, host, send, cert, jobs, InPass
<1>6. CASE DiscardByte
  BY <1>6, NoGarbage DEF DiscardByte
<1>7. CASE DiscardEnd
  BY <1>7, PassStep DEF DiscardEnd, host, send, cert, jobs, InPass
<1> QED
  BY <1>1, <1>2, <1>3, <1>4, <1>5, <1>6, <1>7

-----------------------------------------------------------------------------
(* Answers                                                                 *)

\* The last answer of a command.
LEMMA LastAnswer ==
  ASSUME NEW r, Reply(r), r # ">", Awaited(r)
  PROVE  phase' = "idle" /\ todo' = <<>> /\ kind' = kind
BY DEF Reply

\* It leaves nothing under way.
LEMMA BackToIdle ==
  ASSUME Agreed, phase' = "idle", todo' = <<>>, kind' = kind, uart' = <<>>,
         inputBuffer' = <<>>, Quiet', NoJob', ~InPass',
         sendBuffer' \in Texts, PemCertificate' \in Texts
  PROVE  Agreed'
<1>1. <<>> \in Texts
  BY DEF Texts
<1>2. Typed'
  BY <1>1 DEF Agreed, Typed
<1> QED
  BY <1>2 DEF Agreed, PhaseInv, IdleInv, LoopInv, InPass

LEMMA JobEnds ==
  ASSUME Agreed, JoinEnds \/ ScanEnds
  PROVE  Agreed'
<1>1. phase = "reply" /\ ReplyInv /\ ~NoJob
  BY DEF JoinEnds, ScanEnds, Agreed, Typed, PhaseInv, IdleInv, LineInv, DataInv, NoJob
<1>2. inputBuffer = <<>> /\ uart = <<>> /\ ~InPass /\ Quiet
  BY <1>1 DEF Agreed, LoopInv, ReplyInv, InPass
<1>3. phase' = "idle" /\ todo' = <<>> /\ kind' = kind
  <2>1. \E r \in {"OK", "ERROR"} : Reply(r)
    BY DEF JoinEnds, ScanEnds
  <2> QED
    BY <1>1, <2>1 DEF Reply, Awaited
<1>4. inputBuffer' = <<>> /\ uart' = <<>> /\ Quiet' /\ NoJob' /\ ~InPass'
  BY <1>1, <1>2 DEF JoinEnds, ScanEnds, send, cert, Quiet, NoJob, Job, ReplyInv, InPass
<1>5. sendBuffer' \in Texts /\ PemCertificate' \in Texts
  BY DEF JoinEnds, ScanEnds, send, cert, Agreed, Typed
<1> QED
  BY <1>3, <1>4, <1>5, BackToIdle

-----------------------------------------------------------------------------
(* A byte is read                                                          *)

\* Where the byte that is read has its place, whatever buffer it goes to.
LEMMA NextByte ==
  ASSUME Typed, uart # <<>>, NEW buffer \in Texts
  PROVE  /\ c \in ByteT
         /\ c = Joined(buffer, uart, todo)[Len(buffer) + 1]
         /\ Joined(Append(buffer, c), Tail(uart), todo) = Joined(buffer, uart, todo)
         /\ Append(buffer, c) \in Texts /\ Len(Append(buffer, c)) = Len(buffer) + 1
         /\ Tail(uart) \in Texts /\ Len(Tail(uart)) = Len(uart) - 1
         /\ Len(Joined(buffer, uart, todo)) = Len(buffer) + Len(uart) + Len(todo)
         /\ Len(buffer) \in Nat /\ Len(uart) \in Nat /\ Len(uart) >= 1 /\ Len(todo) \in Nat
<1>1. buffer \in Seq(ByteT) /\ uart \in Seq(ByteT) /\ todo \in Seq(ByteT)
  BY DEF Typed, Texts
<1>2. /\ Joined(Append(buffer, Head(uart)), Tail(uart), todo) = Joined(buffer, uart, todo)
      /\ Joined(buffer, uart, todo)[Len(buffer) + 1] = Head(uart)
  BY <1>1, ReadByte, SMT
<1>3. /\ Head(uart) \in ByteT /\ Tail(uart) \in Seq(ByteT)
      /\ Append(buffer, Head(uart)) \in Seq(ByteT)
      /\ Len(Tail(uart)) = Len(uart) - 1
      /\ Len(Append(buffer, Head(uart))) = Len(buffer) + 1
  BY <1>1, ReadByte, SMT
<1>4. Len(Joined(buffer, uart, todo)) = Len(buffer) + Len(uart) + Len(todo)
  BY <1>1, Lengths, SMT
<1>5. Len(buffer) \in Nat /\ Len(uart) \in Nat /\ Len(uart) >= 1 /\ Len(todo) \in Nat
  BY <1>1
<1> QED
  BY <1>2, <1>3, <1>4, <1>5 DEF Texts, c

\* A text of length zero is the empty one.
LEMMA NoneLeft ==
  ASSUME NEW s \in Texts, Len(s) = 0
  PROVE  s = <<>>
BY DEF Texts

LEMMA ReadPayloadStep ==
  ASSUME Agreed, style = "patient", ReadPayload
  PROVE  Agreed'
<1>1. /\ phase \in {"data", "result"} /\ DataInv
      /\ kind = "send" /\ reading = SendLength /\ ~gsCertLoading
      /\ Joined(sendBuffer, uart, todo) = Payload
  BY DEF ReadPayload, Agreed, Typed, PhaseInv, IdleInv, LineInv, ReplyInv, DataInv, Quiet
<1>2. /\ uart # <<>> /\ uart' = Tail(uart) /\ pc = "serial" /\ ~lineCompleted
      /\ UNCHANGED <<pc, lineCompleted, inputBuffer, gsCertLoading, PemCertificate,
                     gsFlag_Connecting, scanning, gsFlag_Busy>>
  BY DEF ReadPayload, Read, cert, jobs
<1>3. sendBuffer \in Texts /\ todo \in Texts /\ PemCertificate \in Texts
  BY DEF Agreed, Typed
<1>4. /\ Joined(Append(sendBuffer, c), uart', todo) = Payload
      /\ Append(sendBuffer, c) \in Texts /\ uart' \in Texts /\ Len(uart') = Len(uart) - 1
      /\ SendLength = Len(sendBuffer) + Len(uart) + Len(todo)
      /\ Len(sendBuffer) \in Nat /\ Len(uart) \in Nat /\ Len(uart) >= 1 /\ Len(todo) \in Nat
  BY <1>1, <1>2, <1>3, NextByte, PayloadFacts DEF Agreed
<1>5. CASE Len(sendBuffer) + 1 >= reading
  <2>1. Len(uart') = 0 /\ Len(todo) = 0
    BY <1>1, <1>4, <1>5
  <2>2. uart' = <<>>
    BY <1>4, <2>1, NoneLeft
  <2>3. reading' = -1 /\ sendBuffer' = <<>> /\ Reply("SEND")
    BY <1>5 DEF ReadPayload
  <2>4. phase' = "idle" /\ todo' = <<>> /\ kind' = kind
    BY <1>1, <2>3, LastAnswer DEF Awaited, Final
  <2>5. sendBuffer' \in Texts
    BY <2>3 DEF Texts
  <2>6. inputBuffer' = <<>> /\ Quiet' /\ NoJob' /\ ~InPass'
    BY <1>1, <1>2, <2>3 DEF DataInv, Quiet, NoJob, InPass
  <2> QED
    BY <1>2, <1>3, <2>2, <2>4, <2>5, <2>6, BackToIdle
<1>6. CASE ~(Len(sendBuffer) + 1 >= reading)
  <2>1. sendBuffer' = Append(sendBuffer, c) /\ UNCHANGED <<reading, phase, kind, todo>>
    BY <1>6 DEF ReadPayload, host
  <2>2. Typed'
    BY <1>2, <1>4, <2>1 DEF Agreed, Typed
  <2>3. Joined(sendBuffer', uart', todo') = Payload
    BY <1>4, <2>1
  <2>4. DataInv'
    BY <1>1, <1>2, <2>1, <2>3 DEF DataInv, NoJob
  <2> QED
    BY <1>1, <1>2, <2>1, <2>2, <2>4 DEF Agreed, PhaseInv, LoopInv
<1> QED
  BY <1>5, <1>6

\* Where a reader of two bytes, or of three, can be when there is one to read.
LEMMA PlaceOfTwo ==
  ASSUME NEW i \in Nat, NEW j \in Nat, NEW k \in Nat, j >= 1, i + j + k = 2
  PROVE  i = 0 \/ (i = 1 /\ i + 1 = 2 /\ j - 1 = 0 /\ k = 0)
OBVIOUS

LEMMA PlaceOfThree ==
  ASSUME NEW i \in Nat, NEW j \in Nat, NEW k \in Nat, j >= 1, i + j + k = 3
  PROVE  (i = 0 /\ i + 1 = 1) \/ (i = 1 /\ i + 1 = 2) \/ (i = 2 /\ j - 1 = 0 /\ k = 0)
OBVIOUS

\* What is read of a certificate is its body first and then its end.
LEMMA NextOfCert ==
  ASSUME Agreed, ReadCert
  PROVE  /\ phase \in {"data", "result"} /\ kind = "cert" /\ pc = "serial" /\ ~lineCompleted
         /\ DataInv
         /\ Joined(Append(PemCertificate, c), Tail(uart), todo) = CertText("m")
         /\ Append(PemCertificate, c) \in Texts /\ Tail(uart) \in Texts
         /\ \/ PemCertificate = <<>> /\ c.ch = "m"
            \/ /\ c.ch = "E" /\ Len(PemCertificate) = 1 /\ PemCertificate[1].ch = "m"
               /\ Tail(uart) = <<>> /\ todo = <<>>
<1>1. /\ phase \in {"data", "result"} /\ DataInv
      /\ kind = "cert" /\ Joined(PemCertificate, uart, todo) = CertText("m")
  BY DEF ReadCert, Agreed, Typed, PhaseInv, IdleInv, LineInv, ReplyInv, DataInv, Quiet
<1>2. PemCertificate \in Texts /\ todo \in Texts /\ pc = "serial" /\ ~lineCompleted /\ uart # <<>>
  BY DEF ReadCert, Read, Agreed, Typed
<1>3. /\ c = CertText("m")[Len(PemCertificate) + 1]
      /\ Joined(Append(PemCertificate, c), Tail(uart), todo) = CertText("m")
      /\ Append(PemCertificate, c) \in Texts /\ Tail(uart) \in Texts
  BY <1>1, <1>2, NextByte, CertFacts DEF Agreed
<1>a. /\ Len(Tail(uart)) = Len(uart) - 1
      /\ Len(PemCertificate) + Len(uart) + Len(todo) = 2
      /\ Len(PemCertificate) \in Nat /\ Len(uart) \in Nat /\ Len(uart) >= 1 /\ Len(todo) \in Nat
  BY <1>1, <1>2, NextByte, CertFacts DEF Agreed
<1>4. CASE Len(PemCertificate) = 0
  <2>1. PemCertificate = <<>> /\ c.ch = "m"
    BY <1>2, <1>3, <1>4, NoneLeft, CertFacts
  <2> QED
    BY <1>1, <1>2, <1>3, <2>1
<1>5. CASE Len(PemCertificate) = 1
  <2>1. c.ch = "E"
    <3>1. c = CertText("m")[2]
      BY <1>3, <1>5
    <3> QED
      BY <3>1, CertFacts
  <2>2. Tail(uart) = <<>> /\ todo = <<>>
    <3>1. Len(Tail(uart)) = 0 /\ Len(todo) = 0
      <4>1. Len(PemCertificate) # 0
        BY <1>5
      <4> QED
        BY <1>a, <4>1, PlaceOfTwo, Zenon
    <3> QED
      BY <1>2, <1>3, <3>1, NoneLeft
  <2>3. PemCertificate[1] = CertText("m")[1]
    <3>1. PemCertificate \in Seq(ByteT) /\ uart \in Seq(ByteT) /\ todo \in Seq(ByteT)
      BY DEF Agreed, Typed, Texts
    <3>2. Joined(PemCertificate, uart, todo)[1] = PemCertificate[1]
      <4>1. \A n \in 1..Len(PemCertificate) :
               Joined(PemCertificate, uart, todo)[n] = PemCertificate[n]
        BY <3>1, Lengths, SMT
      <4> QED
        BY <1>5, <4>1
    <3> QED
      BY <1>1, <3>2
  <2>4. PemCertificate[1].ch = "m"
    BY <2>3, CertFacts
  <2> QED
    BY <1>1, <1>2, <1>3, <1>5, <2>1, <2>2, <2>4
<1>6. Len(PemCertificate) = 0 \/ Len(PemCertificate) = 1
  BY <1>a, PlaceOfTwo, Zenon
<1> QED
  BY <1>4, <1>5, <1>6

LEMMA CertSteps ==
  ASSUME Agreed, style = "patient", Cert
  PROVE  Agreed'
<1>1. CASE CertByte
  <2>1. /\ uart' = Tail(uart) /\ PemCertificate' = Append(PemCertificate, c)
        /\ ReadCert
        /\ UNCHANGED <<phase, kind, todo, pc, lineCompleted, inputBuffer, reading, sendBuffer,
                       gsCertLoading, gsFlag_Connecting, scanning, gsFlag_Busy>>
    BY <1>1 DEF CertByte, host, send, jobs
  <2>2. /\ phase \in {"data", "result"} /\ kind = "cert" /\ pc = "serial" /\ DataInv
        /\ Joined(PemCertificate', uart', todo') = CertText("m")
        /\ PemCertificate' \in Texts /\ uart' \in Texts
    BY <2>1, NextOfCert
  <2>3. Typed'
    BY <2>1, <2>2 DEF Agreed, Typed
  <2>4. DataInv'
    BY <2>1, <2>2 DEF DataInv, NoJob
  <2> QED
    BY <2>1, <2>2, <2>3, <2>4 DEF Agreed, PhaseInv, LoopInv
<1>2. CASE CertRejected
  <2>1. ReadCert
    BY <1>2 DEF CertRejected
  <2>2. c.ch = "E" \/ (c.ch = "m" /\ PemCertificate = <<>>)
    <3>1. \/ PemCertificate = <<>> /\ c.ch = "m"
          \/ /\ c.ch = "E" /\ Len(PemCertificate) = 1 /\ PemCertificate[1].ch = "m"
             /\ Tail(uart) = <<>> /\ todo = <<>>
      BY <2>1, NextOfCert, Zenon
    <3> QED
      BY <3>1, Zenon
  <2>3. ~Illegal(c)
    BY <2>2 DEF Illegal
  <2>4. Len(<<>>) = 0 /\ MAX_PEM_CERT_LENGTH \in Nat /\ MAX_PEM_CERT_LENGTH >= 3
    BY SerialAssumption
  <2>5. ~Full
    <3>1. CASE PemCertificate = <<>> /\ c.ch = "m"
      <4>1. Len(PemCertificate) = 0
        BY <2>4, <3>1, Zenon
      <4>2. ~(Len(PemCertificate) + 1 > MAX_PEM_CERT_LENGTH - 1)
        BY <2>4, <4>1
      <4> QED
        BY <3>1, <4>2 DEF Full
    <3>2. CASE c.ch = "E" /\ Len(PemCertificate) = 1
      <4>1. Len(PemCertificate) = 1
        BY <3>2, Zenon
      <4>2. ~(Len(PemCertificate) >= MAX_PEM_CERT_LENGTH)
        BY <2>4, <4>1
      <4> QED
        BY <3>2, <4>2 DEF Full
    <3> QED
      BY <2>1, <3>1, <3>2, NextOfCert, Zenon
  <2> QED
    BY <1>2, <2>3, <2>5 DEF CertRejected
<1>3. CASE CertLoaded
  <2>1. ReadCert /\ c.ch = "E"
    BY <1>3 DEF CertLoaded
  <2>2. phase \in {"data", "result"} /\ DataInv /\ ~lineCompleted /\ reading = -1
    BY <2>1, NextOfCert DEF ReadCert
  <2>3. \E r \in {"OK", "ERROR"} : CertEnds(r)
    BY <1>3 DEF CertLoaded
  <2>4. /\ \E r \in {"OK", "ERROR"} : Reply(r)
        /\ ~gsCertLoading' /\ uart' = <<>> /\ PemCertificate' = <<>>
        /\ UNCHANGED <<pc, lineCompleted, inputBuffer, reading, sendBuffer,
                       gsFlag_Connecting, scanning, gsFlag_Busy>>
    BY <2>3 DEF CertEnds, send, jobs
  <2>5. phase' = "idle" /\ todo' = <<>> /\ kind' = kind
    BY <2>2, <2>4, LastAnswer DEF Awaited, Final
  <2>6. inputBuffer' = <<>> /\ Quiet' /\ NoJob' /\ ~InPass'
    BY <2>2, <2>4 DEF DataInv, Quiet, NoJob, InPass
  <2>7. sendBuffer' \in Texts /\ PemCertificate' \in Texts
    BY <2>4 DEF Agreed, Typed, Texts
  <2> QED
    BY <2>4, <2>5, <2>6, <2>7, BackToIdle
<1>4. CASE CertFailed
  <2>1. ReadCert /\ c.ch = "E" /\ ~Imports(PemCertificate)
    BY <1>4 DEF CertFailed
  <2>2. Len(PemCertificate) = 1 /\ PemCertificate[1].ch = "m"
    BY <2>1, NextOfCert
  <2>3. Imports(PemCertificate)
    BY <2>2 DEF Imports
  <2> QED
    BY <2>1, <2>3
<1> QED
  BY <1>1, <1>2, <1>3, <1>4 DEF Cert

LEMMA ReadLineStep ==
  ASSUME Agreed, style = "patient", ReadLine
  PROVE  Agreed'
<1>1. /\ phase \in {"line", "reply"} /\ Quiet /\ NoJob /\ kind \in PatientKinds
      /\ Joined(inputBuffer, uart, todo) = Line(kind)
  BY SerialAssumption
     DEF ReadLine, Read, Agreed, Typed, PhaseInv, IdleInv, LineInv, ReplyInv, DataInv, Quiet
<1>2. /\ uart # <<>> /\ uart' = Tail(uart) /\ pc = "serial" /\ ~lineCompleted
      /\ UNCHANGED <<pc, reading, sendBuffer, gsCertLoading, PemCertificate,
                     gsFlag_Connecting, scanning, gsFlag_Busy>>
  BY DEF ReadLine, Read, send, cert, jobs
<1>3. inputBuffer \in Texts /\ todo \in Texts /\ Len(Line(kind)) = 3
  BY <1>1, LineFacts DEF Agreed, Typed
<1>4. /\ c = Line(kind)[Len(inputBuffer) + 1]
      /\ Joined(Append(inputBuffer, c), uart', todo) = Line(kind)
      /\ Append(inputBuffer, c) \in Texts /\ uart' \in Texts
  BY <1>1, <1>2, <1>3, NextByte DEF Agreed
<1>a. /\ Len(uart') = Len(uart) - 1
      /\ Len(inputBuffer) + Len(uart) + Len(todo) = 3
      /\ Len(inputBuffer) \in Nat /\ Len(uart) \in Nat /\ Len(uart) >= 1 /\ Len(todo) \in Nat
  BY <1>1, <1>2, <1>3, NextByte DEF Agreed
<1>5. Len(inputBuffer) < INPUT_BUFFER_LEN
  BY <1>a, SerialAssumption
<1>6. /\ inputBuffer' = Append(inputBuffer, c) /\ lineCompleted' = (c.ch = "LF")
      /\ UNCHANGED <<phase, kind, todo>>
  BY <1>5 DEF ReadLine, host
<1>7. Typed'
  BY <1>2, <1>4, <1>6 DEF Agreed, Typed
<1>8. Joined(inputBuffer', uart', todo') = Line(kind)
  BY <1>4, <1>6
<1>9. lineCompleted' => uart' = <<>> /\ todo = <<>>
  <2> SUFFICES ASSUME lineCompleted' PROVE uart' = <<>> /\ todo = <<>>
    OBVIOUS
  <2>1. c.ch = "LF" /\ c = Line(kind)[Len(inputBuffer) + 1]
    BY <1>4, <1>6
  <2>2. Len(uart') = 0 /\ Len(todo) = 0
    <3>1. Line(kind)[1].ch # "LF" /\ Line(kind)[2].ch # "LF"
      BY <1>1, LineFacts
    <3>2. Len(inputBuffer) + 1 # 1 /\ Len(inputBuffer) + 1 # 2
      BY <2>1, <3>1, Zenon
    <3>3. \/ Len(inputBuffer) = 0 /\ Len(inputBuffer) + 1 = 1
          \/ Len(inputBuffer) = 1 /\ Len(inputBuffer) + 1 = 2
          \/ Len(inputBuffer) = 2 /\ Len(uart) - 1 = 0 /\ Len(todo) = 0
      BY <1>a, PlaceOfThree, Zenon
    <3>4. Len(uart) - 1 = 0 /\ Len(todo) = 0
      BY <3>2, <3>3, Zenon
    <3> QED
      BY <1>a, <3>4, Zenon
  <2> QED
    BY <1>3, <1>4, <2>2, NoneLeft
<1>10. LineInv => LineInv'
  BY <1>1, <1>2, <1>6, <1>8 DEF LineInv, Quiet, NoJob
<1>11. ReplyInv => ReplyInv'
  BY <1>1, <1>2, <1>6, <1>8 DEF ReplyInv, Quiet, NoJob
<1>12. PhaseInv'
  BY <1>1, <1>6, <1>10, <1>11 DEF Agreed, PhaseInv
<1>13. LoopInv'
  <2>1. phase = "line" => todo # <<>>
    BY DEF Agreed, PhaseInv, LineInv
  <2>2. NoJob'
    BY <1>1, <1>2 DEF NoJob
  <2> QED
    BY <1>1, <1>2, <1>6, <1>9, <2>1, <2>2 DEF LoopInv
<1> QED
  BY <1>7, <1>12, <1>13 DEF Agreed

-----------------------------------------------------------------------------
(* A line is executed                                                      *)

LEMMA Executed ==
  ASSUME Agreed, ProcessCommandBuffer
  PROVE  /\ phase = "reply" /\ Quiet /\ NoJob /\ todo = <<>> /\ uart = <<>>
         /\ inputBuffer = Line(kind) /\ kind \in PatientKinds
         /\ inputBuffer' = <<>> /\ uart' = <<>> /\ ~InPass'
<1>1. /\ phase = "reply" /\ NoJob /\ uart = <<>> /\ kind \in PatientKinds
      /\ inputBuffer \in Seq(ByteT) /\ inputBuffer' = <<>> /\ uart' = <<>> /\ ~InPass'
  BY DEF ProcessCommandBuffer, Agreed, Typed, LoopInv, InPass, Texts
<1>2. Quiet /\ todo = <<>> /\ Joined(inputBuffer, <<>>, <<>>) = Line(kind)
  BY <1>1 DEF Agreed, PhaseInv, ReplyInv, Job, NoJob
<1>3. Joined(inputBuffer, <<>>, <<>>) = inputBuffer
  BY <1>1, Empties
<1> QED
  BY <1>1, <1>2, <1>3

LEMMA AnswerStep ==
  ASSUME Agreed, Answer
  PROVE  Agreed'
<1>1. ProcessCommandBuffer /\ \E r \in {"OK", "ERROR"} : Reply(r)
  BY DEF Answer
<1>2. UNCHANGED <<reading, sendBuffer, gsCertLoading, PemCertificate,
                  gsFlag_Connecting, scanning, gsFlag_Busy>>
  BY DEF Answer, send, cert, jobs
<1>3. phase' = "idle" /\ todo' = <<>> /\ kind' = kind
  BY <1>1, Executed, LastAnswer DEF Awaited
<1>4. Quiet' /\ NoJob' /\ inputBuffer' = <<>> /\ uart' = <<>> /\ ~InPass'
  BY <1>1, <1>2, Executed DEF Quiet, NoJob
<1>5. sendBuffer' \in Texts /\ PemCertificate' \in Texts
  BY <1>2 DEF Agreed, Typed
<1> QED
  BY <1>3, <1>4, <1>5, BackToIdle

LEMMA JobStarts ==
  ASSUME Agreed, StartJoin \/ StartScan
  PROVE  Agreed'
<1>1. ProcessCommandBuffer
  BY DEF StartJoin, StartScan
<1>2. UNCHANGED <<phase, kind, todo, reading, sendBuffer, gsCertLoading, PemCertificate>>
  BY DEF StartJoin, StartScan, host, send, cert
<1>3. "join" \in AllKinds /\ "scan" \in AllKinds
  BY DEF AllKinds, AllStyles, Kinds
<1>4. Job'
  <2>1. CASE StartJoin
    <3>1. Line(kind) = Line("join") /\ kind \in PatientKinds
      BY <1>1, <2>1, Executed DEF StartJoin
    <3>2. kind = "join"
      BY <1>3, <3>1, LineFacts
    <3> QED
      BY <1>1, <1>2, <2>1, <3>2, Executed DEF StartJoin, Job, NoJob
  <2>2. CASE StartScan
    <3>1. Line(kind) = Line("scan") /\ kind \in PatientKinds
      BY <1>1, <2>2, Executed DEF StartScan
    <3>2. kind = "scan"
      BY <1>3, <3>1, LineFacts
    <3> QED
      BY <1>1, <1>2, <2>2, <3>2, Executed DEF StartScan, Job, NoJob
  <2> QED
    BY <2>1, <2>2
<1>5. phase' = "reply" /\ ReplyInv'
  BY <1>1, <1>2, <1>4, Executed DEF ReplyInv, Quiet
<1>6. Typed'
  <2>1. inputBuffer' = <<>> /\ uart' = <<>>
    BY <1>1, Executed
  <2>2. <<>> \in Texts
    BY DEF Texts
  <2> QED
    BY <1>2, <2>1, <2>2 DEF Agreed, Typed
<1>7. LoopInv'
  BY <1>1, Executed DEF LoopInv, InPass
<1> QED
  BY <1>5, <1>6, <1>7 DEF Agreed, PhaseInv

LEMMA DataAsked ==
  ASSUME Agreed, style = "patient", StartSend \/ StartCert
  PROVE  Agreed'
<1>1. ProcessCommandBuffer /\ Reply(">")
  BY DEF StartSend, StartCert
<1>2. UNCHANGED <<kind, gsFlag_Connecting, scanning, gsFlag_Busy>>
  BY <1>1 DEF StartSend, StartCert, jobs, Reply
<1>3. /\ "send" \in AllKinds /\ "send0" \in AllKinds /\ "cert" \in AllKinds
  BY DEF AllKinds, AllStyles, Kinds
<1>4. /\ phase = "reply" /\ NoJob /\ Quiet /\ kind \in PatientKinds /\ inputBuffer = Line(kind)
      /\ inputBuffer' = <<>> /\ uart' = <<>> /\ ~InPass'
  BY <1>1, Executed
<1>5. <<>> \in Texts /\ NoJob' /\ kind # "send0"
  BY <1>2, <1>4 DEF NoJob, PatientKinds, Texts
<1>6. LoopInv'
  BY <1>4 DEF LoopInv, InPass
<1>7. CASE StartSend
  <2>1. kind = "send" /\ reading' = SendLength
    <3>1. inputBuffer # Line("send0")
      BY <1>3, <1>4, <1>5, LineFacts
    <3>2. Line(kind) = Line("send") /\ reading' = SendLength
      BY <1>4, <1>7, <3>1 DEF StartSend
    <3> QED
      BY <1>3, <1>4, <3>2, LineFacts
  <2>2. phase' = "data" /\ todo' = Payload
    BY <1>1, <1>4, <2>1 DEF Reply, Awaited
  <2>3. sendBuffer' = <<>> /\ UNCHANGED <<gsCertLoading, PemCertificate>>
    BY <1>7 DEF StartSend, cert
  <2>4. Joined(sendBuffer', uart', todo') = Payload /\ todo' \in Texts
    BY <1>4, <2>2, <2>3, PayloadFacts, Empties DEF Texts
  <2>5. Typed'
    BY <1>2, <1>4, <1>5, <2>2, <2>3, <2>4 DEF Agreed, Typed
  <2>6. DataInv'
    BY <1>2, <1>4, <1>5, <2>1, <2>3, <2>4 DEF DataInv, Quiet
  <2> QED
    BY <1>6, <2>2, <2>5, <2>6 DEF Agreed, PhaseInv
<1>8. CASE StartCert
  <2>1. kind = "cert"
    <3>1. Line(kind) = Line("cert")
      BY <1>4, <1>8 DEF StartCert
    <3> QED
      BY <1>3, <1>4, <3>1, LineFacts
  <2>2. phase' = "data" /\ todo' = CertText("m")
    BY <1>1, <1>4, <2>1, PatientFacts DEF Reply, Awaited
  <2>3. gsCertLoading' /\ PemCertificate' = <<>> /\ UNCHANGED <<reading, sendBuffer>>
    BY <1>8 DEF StartCert, send
  <2>4. Joined(PemCertificate', uart', todo') = CertText("m") /\ todo' \in Texts
    BY <1>4, <2>2, <2>3, CertFacts, Empties DEF Texts
  <2>5. Typed'
    BY <1>2, <1>4, <1>5, <2>2, <2>3, <2>4 DEF Agreed, Typed
  <2>6. DataInv'
    BY <1>2, <1>4, <1>5, <2>1, <2>3, <2>4 DEF DataInv, Quiet
  <2> QED
    BY <1>6, <2>2, <2>5, <2>6 DEF Agreed, PhaseInv
<1> QED
  BY <1>7, <1>8

-----------------------------------------------------------------------------
(* The invariant, and what follows from it                                 *)

LEMMA SyncInit == Init => SyncInv
<1> SUFFICES ASSUME Init, style = "patient" PROVE Agreed
  BY DEF SyncInv
<1>1. <<>> \in Texts /\ kind \in PatientKinds
  BY DEF Init, PatientKinds, Texts
<1>2. Typed
  BY <1>1 DEF Init, Typed
<1>3. PhaseInv /\ LoopInv
  BY DEF Init, PhaseInv, LoopInv, IdleInv, Quiet, NoJob
<1> QED
  BY <1>2, <1>3 DEF Agreed

LEMMA SyncNext == SyncInv /\ [Next]_vars => SyncInv'
<1> SUFFICES ASSUME SyncInv, [Next]_vars, style' = "patient" PROVE Agreed'
  BY DEF SyncInv
<1>1. style = "patient"
  BY DEF Next, Host, HostStarts, HostSends, HostGivesUp, Loop, Links, SerialEnd, ReadPayload,
         Cert, CertByte, CertRejected, CertLoaded, CertFailed, CertEnds, ReadLine, JoinPending,
         RefuseLine, NoLine, Process, Answer, StartJoin, StartScan, StartSend, StartCert,
         DiscardByte, DiscardEnd, LinkClosed, JoinEnds, ScanEnds, Reply, host, vars
<1>2. Agreed
  BY <1>1 DEF SyncInv
<1>3. CASE Host
  BY <1>1, <1>2, <1>3, HostStartsStep, HostSendsStep DEF Host, HostGivesUp
<1>4. CASE Loop
  <2>1. CASE Process
    BY <1>1, <1>2, <2>1, AnswerStep, JobStarts, DataAsked DEF Process
  <2>2. CASE Cert
    BY <1>1, <1>2, <2>2, CertSteps
  <2>3. CASE ReadPayload
    BY <1>1, <1>2, <2>3, ReadPayloadStep
  <2>4. CASE ReadLine
    BY <1>1, <1>2, <2>4, ReadLineStep
  <2>5. CASE Links \/ SerialEnd \/ JoinPending \/ NoLine \/ RefuseLine
             \/ DiscardByte \/ DiscardEnd
    BY <1>1, <1>2, <2>5, PassSteps
  <2> QED
    BY <1>4, <2>1, <2>2, <2>3, <2>4, <2>5 DEF Loop
<1>5. CASE LinkClosed
  BY <1>1, <1>5 DEF LinkClosed
<1>6. CASE JoinEnds \/ ScanEnds
  BY <1>2, <1>6, JobEnds
<1>7. CASE UNCHANGED vars
  <2>1. /\ UNCHANGED <<phase, kind, todo, uart, inputBuffer, reading, sendBuffer>>
        /\ UNCHANGED <<gsCertLoading, PemCertificate, gsFlag_Connecting, scanning, gsFlag_Busy>>
        /\ UNCHANGED <<pc, lineCompleted>>
    BY <1>7 DEF vars, host, send, cert, jobs
  <2>2. CASE pc = "discard"
    <3>1. Typed' /\ LoopInv'
      BY <1>2, <2>1 DEF Agreed, Typed, LoopInv, NoJob
    <3>2. (IdleInv => IdleInv') /\ (LineInv => LineInv')
          /\ (ReplyInv => ReplyInv') /\ (DataInv => DataInv')
      BY <2>1 DEF IdleInv, LineInv, ReplyInv, DataInv, Quiet, NoJob, Job
    <3> QED
      BY <1>2, <2>1, <3>1, <3>2 DEF Agreed, PhaseInv
  <2>3. CASE pc # "discard"
    BY <1>2, <2>1, <2>3, PassStep DEF InPass
  <2> QED
    BY <2>2, <2>3
<1> QED
  BY <1>3, <1>4, <1>5, <1>6, <1>7 DEF Next

LEMMA SyncFollows == SyncInv => InSync
<1> SUFFICES ASSUME SyncInv, style = "patient" PROVE InSync
  BY DEF InSync
<1>1. Agreed
  BY DEF SyncInv
<1>2. ASSUME pc = "command", lineCompleted
      PROVE  phase = "reply" /\ inputBuffer = Line(kind) /\ ~gsFlag_Busy
  <2>1. phase = "reply" /\ NoJob /\ uart = <<>> /\ inputBuffer \in Seq(ByteT)
    BY <1>1, <1>2 DEF Agreed, Typed, LoopInv, Texts
  <2>2. Joined(inputBuffer, <<>>, <<>>) = Line(kind)
    BY <1>1, <2>1 DEF Agreed, PhaseInv, ReplyInv, Job, NoJob
  <2>3. Joined(inputBuffer, <<>>, <<>>) = inputBuffer
    BY <2>1, Empties
  <2> QED
    BY <2>1, <2>2, <2>3 DEF NoJob
<1>3. gsFlag_Busy => phase = "reply" /\ kind \in {"join", "scan"}
  BY <1>1 DEF Agreed, Typed, PhaseInv, IdleInv, LineInv, ReplyInv, DataInv, Job, NoJob
<1>4. ASSUME ~Quiet
      PROVE  phase \in {"data", "result"} /\ DataInv
  BY <1>1, <1>4 DEF Agreed, Typed, PhaseInv, IdleInv, LineInv, ReplyInv
<1>5. ASSUME reading # -1
      PROVE  kind = "send" /\ Joined(sendBuffer, uart, todo) = Payload
  BY <1>4, <1>5 DEF DataInv, Quiet
<1>6. ASSUME gsCertLoading
      PROVE  kind = "cert" /\ Joined(PemCertificate, uart, todo) = CertText("m")
  BY <1>4, <1>6 DEF DataInv, Quiet
<1>7. "m" \in Certs(style)
  BY PatientFacts
<1> QED
  BY <1>2, <1>3, <1>4, <1>5, <1>6, <1>7 DEF InSync, Quiet, Joined

\* With a host that waits for its answers, whatever its line, payload and
\* certificate are and however the bytes and the passes of loop() interleave, what
\* is executed is its line, and the bytes that are read for a link or for a
\* certificate are those it meant for it, none lost (ESP_ATMod.ino:354-620).
THEOREM InSyncCorrect == Spec => []InSync
<1>1. Spec => []SyncInv
  BY SyncInit, SyncNext, PTL DEF Spec
<1> QED
  BY <1>1, SyncFollows, PTL

-----------------------------------------------------------------------------
(***************************************************************************)
(* Types, with any host: what each buffer holds and how much of it.        *)
(***************************************************************************)

\* The step, action by action.
LEMMA SerialSteps ==
  ASSUME [Next]_vars,
         NEW P,
         ASSUME NEW k \in AllKinds, HostStarts(k) PROVE P,
         HostSends => P, HostGivesUp => P,
         Links => P, LinkClosed => P, SerialEnd => P,
         ReadPayload => P, CertByte => P, CertRejected => P, CertLoaded => P, CertFailed => P,
         ReadLine => P, JoinPending => P, JoinEnds => P, ScanEnds => P, RefuseLine => P, NoLine => P,
         Answer => P, StartJoin => P, StartScan => P, StartSend => P, StartCert => P,
         DiscardByte => P, DiscardEnd => P,
         UNCHANGED vars => P
  PROVE  P
BY DEF Next, Host, Loop, Cert, Process

\* What a command does to the line and to the host, whatever it is.
LEMMA ProcessSteps ==
  /\ Answer \/ StartJoin \/ StartScan \/ StartSend \/ StartCert => ProcessCommandBuffer
  /\ Answer \/ StartSend \/ StartCert => \E r : Reply(r)
  /\ StartJoin \/ StartScan => UNCHANGED host
BY DEF Answer, StartJoin, StartScan, StartSend, StartCert

LEMMA ByteSets ==
  /\ \A k \in AllKinds : Line(k) \in Seq(Bytes)
  /\ Payload \in Seq(Bytes)
  /\ \A body \in {"m", "x", "i"} : CertText(body) \in Seq(Bytes)
<1>1. ASSUME NEW k \in AllKinds PROVE Line(k) \in Seq(Bytes)
  <2>1. ToSet(Line(k)) \subseteq Bytes
    BY DEF Bytes
  <2>2. LineLength(k) \in Nat
    BY SerialAssumption DEF LineLength
  <2>3. \A n \in 1..LineLength(k) : Line(k)[n] \in Bytes
    <3>1. DOMAIN Line(k) = 1..LineLength(k)
      BY DEF Line
    <3>2. QED
      BY <2>1, <3>1 DEF ToSet
  <2>4. Line(k) = [n \in 1..LineLength(k) |-> Line(k)[n]]
    BY DEF Line
  <2>5. QED
    BY <2>2, <2>3, <2>4
<1>2. Payload \in Seq(Bytes)
  <2>1. ToSet(Payload) \subseteq Bytes
    BY DEF Bytes
  <2>2. SendLength \in Nat
    BY SerialAssumption
  <2>3. \A n \in 1..SendLength : Payload[n] \in Bytes
    <3>1. DOMAIN Payload = 1..SendLength
      BY DEF Payload
    <3>2. QED
      BY <2>1, <3>1 DEF ToSet
  <2>4. Payload = [n \in 1..SendLength |-> Payload[n]]
    BY DEF Payload
  <2>5. QED
    BY <2>2, <2>3, <2>4
<1>3. ASSUME NEW body \in {"m", "x", "i"} PROVE CertText(body) \in Seq(Bytes)
  <2>1. ToSet(CertText(body)) \subseteq Bytes
    BY DEF Bytes
  <2>2. DOMAIN CertText(body) = 1..2
    BY DEF CertText
  <2>3. CertText(body)[1] \in Bytes /\ CertText(body)[2] \in Bytes
    BY <2>1, <2>2 DEF ToSet
  <2>4. Byte(body, "cert", 1) \in Bytes /\ Byte("E", "cert", 2) \in Bytes
    BY <2>3 DEF CertText
  <2>5. QED
    BY <2>4 DEF CertText
<1>4. QED
  BY <1>1, <1>2, <1>3

Phases == {"idle", "line", "reply", "data", "result"}

HostTypes ==
  style \in Styles /\ phase \in Phases /\ kind \in AllKinds /\ todo \in Seq(Bytes)

LEMMA ReplyTypes ==
  ASSUME HostTypes, NEW r, Reply(r)
  PROVE  HostTypes'
<1>1. \A body \in Certs(style) : CertText(body) \in Seq(Bytes)
  <2>1. Certs(style) \subseteq {"m", "x", "i"}
    BY DEF Certs
  <2>2. QED
    BY <2>1, ByteSets
<1>2. Payload \in Seq(Bytes) /\ <<>> \in Seq(Bytes)
  BY ByteSets
<1>3. CASE Awaited(r) /\ r # ">"
  BY <1>2, <1>3 DEF Reply, HostTypes, Phases
<1>4. CASE Awaited(r) /\ r = ">"
  <2>1. todo' \in Seq(Bytes)
    BY <1>1, <1>2, <1>4 DEF Reply
  <2>2. phase' \in Phases /\ UNCHANGED <<style, kind>>
    BY <1>4 DEF Reply, Phases
  <2>3. QED
    BY <2>1, <2>2 DEF HostTypes
<1>5. CASE ~Awaited(r)
  BY <1>5 DEF Reply, HostTypes
<1>6. QED
  BY <1>3, <1>4, <1>5

\* A host that does something else than answer an answer.
LEMMA HostStep == HostTypes /\ [Next]_vars => HostTypes'
<1> SUFFICES ASSUME HostTypes, [Next]_vars PROVE HostTypes'
  OBVIOUS
<1>1. UNCHANGED host => HostTypes'
  BY DEF HostTypes, host
<1>2. \A r : Reply(r) => HostTypes'
  BY ReplyTypes
<1>3. ASSUME NEW k \in AllKinds, HostStarts(k) PROVE HostTypes'
  BY <1>3, ByteSets DEF HostStarts, HostTypes, Phases
<1>4. HostSends => HostTypes'
  <2> SUFFICES ASSUME HostSends PROVE HostTypes'
    OBVIOUS
  <2>1. todo' \in Seq(Bytes)
    BY DEF HostSends, HostTypes
  <2>2. phase' \in Phases /\ UNCHANGED <<style, kind>>
    BY DEF HostSends, HostTypes, Phases
  <2>3. QED
    BY <2>1, <2>2 DEF HostTypes
<1>5. HostGivesUp => HostTypes'
  BY DEF HostGivesUp, HostTypes, Phases
<1>6. Links \/ SerialEnd \/ CertByte \/ JoinPending \/ NoLine \/ DiscardByte \/ DiscardEnd
        \/ UNCHANGED vars => UNCHANGED host
  BY DEF Links, SerialEnd, CertByte, JoinPending, NoLine, DiscardByte, DiscardEnd, vars
<1>7. LinkClosed \/ CertFailed \/ JoinEnds \/ ScanEnds => \E r : Reply(r)
  BY DEF LinkClosed, CertFailed, JoinEnds, ScanEnds
<1>8. CertRejected \/ CertLoaded => \E r : Reply(r)
  BY DEF CertRejected, CertLoaded, CertEnds
<1>9. ReadPayload \/ ReadLine \/ RefuseLine => UNCHANGED host \/ \E r : Reply(r)
  BY DEF ReadPayload, ReadLine, RefuseLine, host
<1>10. QED
  BY <1>1, <1>2, <1>3, <1>4, <1>5, <1>6, <1>7, <1>8, <1>9, ProcessSteps, SerialSteps, Zenon

BufferTypes ==
  /\ uart \in Seq(Bytes) /\ inputBuffer \in Seq(Bytes)
  /\ sendBuffer \in Seq(Bytes) /\ PemCertificate \in Seq(Bytes)
  /\ Len(uart) <= UartSize /\ Len(inputBuffer) <= INPUT_BUFFER_LEN
  /\ Len(sendBuffer) <= SendLength /\ Len(PemCertificate) <= MAX_PEM_CERT_LENGTH
  /\ reading \in {-1, 0, SendLength}

LEMMA ByteRead ==
  ASSUME uart \in Seq(Bytes), Len(uart) <= UartSize, uart # <<>>
  PROVE  /\ c \in Bytes /\ Tail(uart) \in Seq(Bytes) /\ Len(Tail(uart)) <= UartSize
         /\ \A text \in Seq(Bytes) : /\ Append(text, c) \in Seq(Bytes)
                                     /\ Len(Append(text, c)) = Len(text) + 1 /\ Len(text) \in Nat
<1>1. Head(uart) \in Bytes /\ Tail(uart) \in Seq(Bytes) /\ Len(Tail(uart)) <= UartSize
  BY SerialAssumption
<1>2. \A text \in Seq(Bytes) : /\ Append(text, Head(uart)) \in Seq(Bytes)
                               /\ Len(Append(text, Head(uart))) = Len(text) + 1 /\ Len(text) \in Nat
  BY <1>1
<1>3. QED
  BY <1>1, <1>2 DEF c

LEMMA EmptyBuffer ==
  /\ <<>> \in Seq(Bytes) /\ Len(<<>>) <= UartSize /\ Len(<<>>) <= INPUT_BUFFER_LEN
  /\ Len(<<>>) <= SendLength /\ Len(<<>>) <= MAX_PEM_CERT_LENGTH
BY SerialAssumption

\* The buffers are full at most: each reader looks at the length before the byte
\* goes in, and a certificate that fails in the last place is the last to fit.
LEMMA BufferStep == HostTypes /\ BufferTypes /\ [Next]_vars => BufferTypes'
<1> SUFFICES ASSUME HostTypes, BufferTypes, [Next]_vars PROVE BufferTypes'
  OBVIOUS
<1> DEFINE Buffers == <<uart, inputBuffer, sendBuffer, PemCertificate, reading>>
<1>1. UNCHANGED Buffers => BufferTypes'
  BY DEF BufferTypes
<1>2. \A k : HostStarts(k) => UNCHANGED Buffers
  BY DEF HostStarts, send, cert
<1>3. HostGivesUp \/ Links \/ SerialEnd \/ JoinPending \/ NoLine \/ DiscardEnd \/ UNCHANGED vars
        => UNCHANGED Buffers
  BY DEF HostGivesUp, Links, SerialEnd, JoinPending, NoLine, DiscardEnd, send, cert, vars
<1>4. JoinEnds \/ ScanEnds => UNCHANGED Buffers
  BY DEF JoinEnds, ScanEnds, send, cert
<1>5. HostSends => BufferTypes'
  <2> SUFFICES ASSUME HostSends PROVE BufferTypes'
    OBVIOUS
  <2>1. /\ todo # <<>> /\ Len(uart) < UartSize /\ uart' = Append(uart, Head(todo))
        /\ UNCHANGED <<inputBuffer, sendBuffer, PemCertificate, reading>>
    BY DEF HostSends, send, cert
  <2>2. todo \in Seq(Bytes) /\ uart \in Seq(Bytes)
    BY DEF HostTypes, BufferTypes
  <2>3. uart' \in Seq(Bytes) /\ Len(uart') <= UartSize
    BY <2>1, <2>2, SerialAssumption
  <2>4. QED
    BY <2>1, <2>3 DEF BufferTypes
<1>6. LinkClosed => BufferTypes'
  BY DEF LinkClosed, cert, BufferTypes
<1>7. ReadPayload => BufferTypes'
  <2> SUFFICES ASSUME ReadPayload PROVE BufferTypes'
    OBVIOUS
  <2>1. uart # <<>> /\ uart' = Tail(uart) /\ UNCHANGED <<inputBuffer, PemCertificate>>
    BY DEF ReadPayload, Read, cert
  <2>2. /\ uart' \in Seq(Bytes) /\ Len(uart') <= UartSize /\ Append(sendBuffer, c) \in Seq(Bytes)
        /\ Len(Append(sendBuffer, c)) = Len(sendBuffer) + 1 /\ Len(sendBuffer) \in Nat
    BY <2>1, ByteRead DEF BufferTypes
  <2>3. CASE Len(sendBuffer) + 1 >= reading
    <3>1. reading' = -1 /\ sendBuffer' = <<>>
      BY <2>3 DEF ReadPayload
    <3>2. QED
      BY <2>1, <2>2, <3>1, EmptyBuffer DEF BufferTypes
  <2>4. CASE ~(Len(sendBuffer) + 1 >= reading)
    <3>1. reading' = reading /\ sendBuffer' = Append(sendBuffer, c)
      BY <2>4 DEF ReadPayload
    <3>2. reading <= SendLength
      BY SerialAssumption DEF BufferTypes
    <3>3. Len(sendBuffer') <= SendLength
      <4>1. reading \in Int
        BY SerialAssumption DEF BufferTypes
      <4>2. QED
        BY <2>2, <2>4, <3>1, <3>2, <4>1, SerialAssumption
    <3>4. QED
      BY <2>1, <2>2, <3>1, <3>3 DEF BufferTypes
  <2>5. QED
    BY <2>3, <2>4
<1>8. CertByte \/ CertFailed => BufferTypes'
  <2> SUFFICES ASSUME CertByte \/ CertFailed PROVE BufferTypes'
    OBVIOUS
  <2>1. /\ uart # <<>> /\ uart' = Tail(uart) /\ PemCertificate' = Append(PemCertificate, c)
        /\ ~Full /\ UNCHANGED <<inputBuffer, sendBuffer, reading>>
    BY DEF CertByte, CertFailed, ReadCert, Read, send
  <2>2. /\ uart' \in Seq(Bytes) /\ Len(uart') <= UartSize /\ PemCertificate' \in Seq(Bytes)
        /\ Len(PemCertificate') = Len(PemCertificate) + 1 /\ Len(PemCertificate) \in Nat
    BY <2>1, ByteRead DEF BufferTypes
  <2>3. MAX_PEM_CERT_LENGTH \in Nat
    BY SerialAssumption
  <2>4. Len(PemCertificate) + 1 <= MAX_PEM_CERT_LENGTH
    <3>1. CASE c.ch = "E"
      BY <2>1, <2>2, <2>3, <3>1 DEF Full
    <3>2. CASE c.ch # "E"
      BY <2>1, <2>2, <2>3, <3>2 DEF Full
    <3>3. QED
      BY <3>1, <3>2
  <2>5. QED
    BY <2>1, <2>2, <2>4 DEF BufferTypes
<1>9. CertRejected \/ CertLoaded => BufferTypes'
  <2> SUFFICES ASSUME CertRejected \/ CertLoaded PROVE BufferTypes'
    OBVIOUS
  <2>1. PemCertificate' = <<>> /\ uart' = <<>> /\ UNCHANGED <<inputBuffer, sendBuffer, reading>>
    BY DEF CertRejected, CertLoaded, CertEnds, send
  <2>2. QED
    BY <2>1, EmptyBuffer DEF BufferTypes
<1>10. ReadLine => BufferTypes'
  <2> SUFFICES ASSUME ReadLine PROVE BufferTypes'
    OBVIOUS
  <2>1. uart # <<>> /\ uart' = Tail(uart) /\ UNCHANGED <<sendBuffer, reading, PemCertificate>>
    BY DEF ReadLine, Read, send, cert
  <2>2. /\ uart' \in Seq(Bytes) /\ Len(uart') <= UartSize /\ Append(inputBuffer, c) \in Seq(Bytes)
        /\ Len(Append(inputBuffer, c)) = Len(inputBuffer) + 1 /\ Len(inputBuffer) \in Nat
    BY <2>1, ByteRead DEF BufferTypes
  <2>3. inputBuffer' \in Seq(Bytes) /\ Len(inputBuffer') <= INPUT_BUFFER_LEN
    <3>1. CASE Len(inputBuffer) < INPUT_BUFFER_LEN
      <4>1. inputBuffer' = Append(inputBuffer, c)
        BY <3>1 DEF ReadLine
      <4>2. QED
        BY <2>2, <3>1, <4>1, SerialAssumption
    <3>2. CASE ~(Len(inputBuffer) < INPUT_BUFFER_LEN)
      <4>1. inputBuffer' = <<>>
        BY <3>2 DEF ReadLine
      <4>2. QED
        BY <4>1, EmptyBuffer
    <3>3. QED
      BY <3>1, <3>2
  <2>4. QED
    BY <2>1, <2>2, <2>3 DEF BufferTypes
<1>11. RefuseLine \/ Answer \/ StartJoin \/ StartScan => BufferTypes'
  <2> SUFFICES ASSUME RefuseLine \/ Answer \/ StartJoin \/ StartScan PROVE BufferTypes'
    OBVIOUS
  <2>1. inputBuffer' = <<>> /\ UNCHANGED <<uart, sendBuffer, reading, PemCertificate>>
    BY DEF RefuseLine, Answer, StartJoin, StartScan, ProcessCommandBuffer, send, cert
  <2>2. QED
    BY <2>1, EmptyBuffer DEF BufferTypes
<1>12. StartSend => BufferTypes'
  <2> SUFFICES ASSUME StartSend PROVE BufferTypes'
    OBVIOUS
  <2>1. /\ inputBuffer' = <<>> /\ sendBuffer' = <<>> /\ UNCHANGED <<uart, PemCertificate>>
        /\ reading' \in {0, SendLength}
    BY DEF StartSend, ProcessCommandBuffer, cert
  <2>2. QED
    BY <2>1, EmptyBuffer DEF BufferTypes
<1>13. StartCert => BufferTypes'
  <2> SUFFICES ASSUME StartCert PROVE BufferTypes'
    OBVIOUS
  <2>1. inputBuffer' = <<>> /\ PemCertificate' = <<>> /\ UNCHANGED <<uart, sendBuffer, reading>>
    BY DEF StartCert, ProcessCommandBuffer, send
  <2>2. QED
    BY <2>1, EmptyBuffer DEF BufferTypes
<1>14. DiscardByte => BufferTypes'
  <2> SUFFICES ASSUME DiscardByte PROVE BufferTypes'
    OBVIOUS
  <2>1. /\ uart # <<>> /\ uart' = Tail(uart)
        /\ UNCHANGED <<inputBuffer, sendBuffer, reading, PemCertificate>>
    BY DEF DiscardByte, send, cert
  <2>2. QED
    BY <2>1, ByteRead DEF BufferTypes
<1>15. QED
  BY <1>1, <1>2, <1>3, <1>4, <1>5, <1>6, <1>7, <1>8, <1>9, <1>10, <1>11, <1>12, <1>13, <1>14,
     SerialSteps, Zenon

FlagTypes ==
  /\ gsCertLoading \in BOOLEAN /\ lineCompleted \in BOOLEAN
  /\ gsFlag_Connecting \in BOOLEAN /\ scanning \in BOOLEAN /\ gsFlag_Busy \in BOOLEAN

PcTypes == pc \in {"links", "serial", "connect", "command", "discard"}

LEMMA PcStep == PcTypes /\ [Next]_vars => PcTypes'
<1> SUFFICES ASSUME PcTypes, [Next]_vars PROVE PcTypes'
  OBVIOUS
<1>1. UNCHANGED pc => PcTypes'
  BY DEF PcTypes
<1>2. \A k : HostStarts(k) => UNCHANGED pc
  BY DEF HostStarts
<1>3. HostSends \/ HostGivesUp \/ LinkClosed \/ ReadPayload \/ CertByte \/ ReadLine \/ ScanEnds
        \/ DiscardByte \/ UNCHANGED vars => UNCHANGED pc
  BY DEF HostSends, HostGivesUp, LinkClosed, ReadPayload, CertByte, ReadLine, ScanEnds,
         DiscardByte, vars
<1>4. CertRejected \/ CertLoaded => UNCHANGED pc
  BY DEF CertRejected, CertLoaded, CertEnds
<1>5. Links \/ SerialEnd \/ CertFailed \/ JoinPending \/ JoinEnds \/ RefuseLine \/ NoLine
        \/ DiscardEnd => PcTypes'
  BY DEF Links, SerialEnd, CertFailed, JoinPending, JoinEnds, RefuseLine, NoLine, DiscardEnd,
         PcTypes
<1>6. ProcessCommandBuffer => PcTypes'
  BY DEF ProcessCommandBuffer, PcTypes
<1>7. QED
  BY <1>1, <1>2, <1>3, <1>4, <1>5, <1>6, ProcessSteps, SerialSteps, Zenon

LEMMA FlagStep == FlagTypes /\ [Next]_vars => FlagTypes'
<1> SUFFICES ASSUME FlagTypes, [Next]_vars PROVE FlagTypes'
  OBVIOUS
<1> DEFINE Goal == FlagTypes'
<1>1. UNCHANGED <<gsCertLoading, lineCompleted, gsFlag_Connecting, scanning, gsFlag_Busy>> => Goal
  BY DEF FlagTypes
<1>j. UNCHANGED <<gsCertLoading, lineCompleted, jobs>> => Goal
  BY <1>1 DEF jobs
<1>2. \A k : HostStarts(k) => UNCHANGED <<gsCertLoading, lineCompleted, jobs>>
  BY DEF HostStarts, cert
<1>3. HostSends \/ HostGivesUp \/ LinkClosed \/ SerialEnd \/ ReadPayload
        => UNCHANGED <<gsCertLoading, lineCompleted, jobs>>
  BY DEF HostSends, HostGivesUp, LinkClosed, SerialEnd, ReadPayload, cert
<1>4. JoinPending \/ RefuseLine \/ NoLine \/ DiscardByte \/ DiscardEnd \/ UNCHANGED vars
        => UNCHANGED <<gsCertLoading, lineCompleted, jobs>>
  BY DEF JoinPending, RefuseLine, NoLine, DiscardByte, DiscardEnd, cert, vars
<1>5. CertByte \/ CertFailed => UNCHANGED <<gsCertLoading, lineCompleted, jobs>>
  BY DEF CertByte, CertFailed
<1>6. Answer \/ StartSend => UNCHANGED <<gsCertLoading, lineCompleted, jobs>>
  BY DEF Answer, StartSend, ProcessCommandBuffer, cert
<1>7. CertRejected \/ CertLoaded => Goal
  <2> SUFFICES ASSUME CertRejected \/ CertLoaded PROVE Goal
    OBVIOUS
  <2>1. gsCertLoading' = FALSE /\ UNCHANGED <<lineCompleted, jobs>>
    BY DEF CertRejected, CertLoaded, CertEnds
  <2>2. QED
    BY <2>1, Zenon DEF FlagTypes, jobs
<1>8. Links => Goal
  <2> SUFFICES ASSUME Links PROVE Goal
    OBVIOUS
  <2>1. lineCompleted' = FALSE /\ UNCHANGED <<gsCertLoading, jobs>>
    BY DEF Links, cert
  <2>2. QED
    BY <2>1, Zenon DEF FlagTypes, jobs
<1>9. ReadLine => Goal
  <2> SUFFICES ASSUME ReadLine PROVE Goal
    OBVIOUS
  <2>1. UNCHANGED lineCompleted \/ lineCompleted' = (c.ch = "LF")
    BY Zenon DEF ReadLine
  <2>2. UNCHANGED <<gsCertLoading, jobs>>
    BY DEF ReadLine, cert
  <2>3. (c.ch = "LF") \in BOOLEAN
    BY Zenon
  <2>4. lineCompleted' \in BOOLEAN
    BY <2>1, <2>3, Zenon DEF FlagTypes
  <2>5. QED
    BY <2>2, <2>4, Zenon DEF FlagTypes, jobs
<1>10. JoinEnds => Goal
  <2> SUFFICES ASSUME JoinEnds PROVE Goal
    OBVIOUS
  <2>1. /\ gsFlag_Connecting' = FALSE /\ gsFlag_Busy' = FALSE
        /\ UNCHANGED <<lineCompleted, gsCertLoading, scanning>>
    BY DEF JoinEnds, cert
  <2>2. QED
    BY <2>1, Zenon DEF FlagTypes
<1>11. ScanEnds => Goal
  <2> SUFFICES ASSUME ScanEnds PROVE Goal
    OBVIOUS
  <2>1. /\ scanning' = FALSE /\ gsFlag_Busy' = FALSE
        /\ UNCHANGED <<lineCompleted, gsCertLoading, gsFlag_Connecting>>
    BY DEF ScanEnds, cert
  <2>2. QED
    BY <2>1, Zenon DEF FlagTypes
<1>12. StartJoin => Goal
  <2> SUFFICES ASSUME StartJoin PROVE Goal
    OBVIOUS
  <2>1. /\ gsFlag_Connecting' = TRUE /\ gsFlag_Busy' = TRUE
        /\ UNCHANGED <<lineCompleted, gsCertLoading, scanning>>
    BY DEF StartJoin, ProcessCommandBuffer, cert
  <2>2. QED
    BY <2>1, Zenon DEF FlagTypes
<1>13. StartScan => Goal
  <2> SUFFICES ASSUME StartScan PROVE Goal
    OBVIOUS
  <2>1. /\ scanning' = TRUE /\ gsFlag_Busy' = TRUE
        /\ UNCHANGED <<lineCompleted, gsCertLoading, gsFlag_Connecting>>
    BY DEF StartScan, ProcessCommandBuffer, cert
  <2>2. QED
    BY <2>1, Zenon DEF FlagTypes
<1>14. StartCert => Goal
  <2> SUFFICES ASSUME StartCert PROVE Goal
    OBVIOUS
  <2>1. gsCertLoading' = TRUE /\ UNCHANGED <<lineCompleted, jobs>>
    BY DEF StartCert, ProcessCommandBuffer
  <2>2. QED
    BY <2>1, Zenon DEF FlagTypes, jobs
<1> HIDE DEF Goal
<1>15. Goal
  BY <1>j, <1>2, <1>3, <1>4, <1>5, <1>6, <1>7, <1>8, <1>9, <1>10, <1>11, <1>12, <1>13, <1>14,
     SerialSteps, Zenon
<1>16. QED
  BY <1>15 DEF Goal

\* Who has come an answer ahead stays so.
AheadType == ahead \in BOOLEAN

LEMMA AheadStep == AheadType /\ [Next]_vars => AheadType' /\ (ahead => ahead')
<1> SUFFICES ASSUME AheadType, [Next]_vars PROVE AheadType' /\ (ahead => ahead')
  OBVIOUS
<1> DEFINE Same == UNCHANGED ahead
           Goal == AheadType' /\ (ahead => ahead')
<1>1. Same => Goal
  BY DEF AheadType
<1>2. \A k : HostStarts(k) => Same
  BY DEF HostStarts
<1>3. HostSends \/ HostGivesUp \/ Links \/ LinkClosed \/ SerialEnd \/ ReadPayload => Same
  BY DEF HostSends, HostGivesUp, Links, LinkClosed, SerialEnd, ReadPayload
<1>4. CertByte \/ CertRejected \/ CertLoaded \/ CertFailed => Same
  BY DEF CertByte, CertRejected, CertLoaded, CertFailed, CertEnds
<1>5. JoinPending \/ JoinEnds \/ ScanEnds \/ RefuseLine \/ NoLine \/ DiscardByte \/ DiscardEnd => Same
  BY DEF JoinPending, JoinEnds, ScanEnds, RefuseLine, NoLine, DiscardByte, DiscardEnd
<1>6. Answer \/ StartJoin \/ StartScan \/ StartSend \/ StartCert \/ UNCHANGED vars => Same
  BY DEF Answer, StartJoin, StartScan, StartSend, StartCert, vars
<1>7. ReadLine => Goal
  <2> SUFFICES ASSUME ReadLine PROVE Goal
    OBVIOUS
  <2>1. Same \/ ahead' = (ahead \/ (phase = "reply" /\ uart' # <<>>))
    BY Zenon DEF ReadLine, AnsweredEarly
  <2>2. QED
    BY <1>1, <2>1, Zenon DEF AheadType
<1> HIDE DEF Same, Goal
<1>8. Goal
  BY <1>1, <1>2, <1>3, <1>4, <1>5, <1>6, <1>7, SerialSteps, Zenon
<1>9. QED
  BY <1>8 DEF Goal

LEMMA TypesInit == Init => HostTypes /\ BufferTypes /\ FlagTypes /\ PcTypes /\ AheadType
<1> SUFFICES ASSUME Init PROVE HostTypes /\ BufferTypes /\ FlagTypes /\ PcTypes /\ AheadType
  OBVIOUS
<1>1. "plain" \in AllKinds
  BY DEF AllKinds, AllStyles, Kinds
<1>2. HostTypes
  BY <1>1, EmptyBuffer DEF Init, HostTypes, Phases
<1>3. BufferTypes
  BY EmptyBuffer DEF Init, BufferTypes
<1>4. FlagTypes
  <2>1. /\ gsCertLoading = FALSE /\ lineCompleted = FALSE /\ gsFlag_Connecting = FALSE
        /\ scanning = FALSE /\ gsFlag_Busy = FALSE
    BY DEF Init
  <2>2. QED
    BY <2>1, Zenon DEF FlagTypes
<1>5. PcTypes
  BY DEF Init, PcTypes
<1>6. AheadType
  BY DEF Init, AheadType
<1>7. QED
  BY <1>2, <1>3, <1>4, <1>5, <1>6

LEMMA TypesFollow == HostTypes /\ BufferTypes /\ FlagTypes /\ PcTypes /\ AheadType => TypeOK
<1> SUFFICES ASSUME HostTypes, BufferTypes, FlagTypes, PcTypes, AheadType PROVE TypeOK
  OBVIOUS
<1>1. \A text \in Seq(Bytes) : ToSet(text) \subseteq Bytes
  BY DEF ToSet
<1>2. \A buffer \in {todo, uart, inputBuffer, sendBuffer, PemCertificate} :
        ToSet(buffer) \subseteq Bytes
  BY <1>1 DEF HostTypes, BufferTypes
<1>3. {gsCertLoading, lineCompleted, gsFlag_Connecting, scanning, gsFlag_Busy} \subseteq BOOLEAN
  BY Zenon DEF FlagTypes
<1>4. /\ style \in Styles /\ phase \in Phases /\ kind \in AllKinds
      /\ pc \in {"links", "serial", "connect", "command", "discard"}
      /\ reading \in {-1, 0, SendLength}
      /\ Len(uart) <= UartSize /\ Len(inputBuffer) <= INPUT_BUFFER_LEN
      /\ Len(sendBuffer) <= SendLength /\ Len(PemCertificate) <= MAX_PEM_CERT_LENGTH
  BY DEF HostTypes, BufferTypes, PcTypes
<1>5. QED
  BY <1>2, <1>3, <1>4, Zenon DEF TypeOK, Phases, AheadType

\* With any host, also one that sends too much, gives up and sends on, no buffer
\* holds more than fits and no more is read for a link than was announced.
THEOREM SerialTypeCorrect == Spec => []TypeOK
BY TypesInit, TypesFollow, HostStep, BufferStep, FlagStep, PcStep, AheadStep, PTL DEF Spec
=============================================================================
