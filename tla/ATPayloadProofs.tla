--------------------------- MODULE ATPayloadProofs ---------------------------
(***************************************************************************)
(* A theorem about ATSerial: what is written to a link is the payload the  *)
(* host meant for it, also when the peer ended an earlier link while its   *)
(* payload was under way and the rest of that one is taken for the         *)
(* beginning of the next line.                                             *)
(***************************************************************************)
EXTENDS ATSerialProofs

\* What loop() will read as command lines, if it reads them as such.
Coming == Joined(inputBuffer, uart, todo)

\* The rest of a payload whose link is gone.
RestOnly ==
  /\ todo = <<>>
  /\ Len(Coming) <= SendLength
  /\ \A i \in 1..Len(Coming) : Coming[i].ch # "LF"

\* The host's line, behind such a rest.
RestAndLine ==
  /\ Len(Coming) \in 1..(SendLength + 3)
  /\ \A i \in 1..Len(Coming) : Coming[i].ch = "LF" <=> i = Len(Coming)
  /\ Coming[Len(Coming)].kind = kind

PayloadComing ==
  /\ kind = "send" /\ reading = SendLength
  /\ inputBuffer = <<>>
  /\ Joined(sendBuffer, uart, todo) = Payload

ByPhase ==
  /\ phase = "idle" => reading = -1 /\ RestOnly
  /\ phase \in {"line", "reply"} => reading = -1 /\ RestAndLine
  /\ phase \in {"data", "result"} => PayloadComing
  /\ phase = "line" => todo # <<>>
  /\ phase \in {"reply", "result"} => todo = <<>>

\* While garbage is discarded there is none: the rest was a part of the line that
\* has just been refused.
ByPlace ==
  /\ pc = "discard" => /\ inputBuffer = <<>>
                       /\ reading = -1 => (Coming # <<>> => Coming[1].ch = "A")
                       /\ reading # -1 => uart = <<>>
  /\ InPass => phase = "reply" /\ uart = <<>>

DesertedKinds == {"plain", "send"}

Deserted ==
  /\ Typed /\ kind \in DesertedKinds
  /\ NoJob /\ ~gsCertLoading
  /\ ByPhase
  /\ ByPlace

\* Until an overflow is answered before the line is read.
DesertedInv == style = "deserted" /\ ~ahead => Deserted

-----------------------------------------------------------------------------
\* The text t is s, and then d.
Extends(t, s, d) ==
  /\ Len(t) = Len(s) + Len(d)
  /\ \A i \in 1..Len(s) : t[i] = s[i]
  /\ \A i \in 1..Len(d) : t[Len(s) + i] = d[i]

LEMMA ConcatExtends ==
  ASSUME NEW T, NEW s \in Seq(T), NEW d \in Seq(T)
  PROVE  s \o d \in Seq(T) /\ Extends(s \o d, s, d)
<1>1. /\ s \o d \in Seq(T) /\ Len(s \o d) = Len(s) + Len(d)
      /\ \A i \in 1..(Len(s) + Len(d)) : (s \o d)[i] = IF i <= Len(s) THEN s[i] ELSE d[i - Len(s)]
  BY ConcatProperties
<1>2. Len(s) \in Nat /\ Len(d) \in Nat
  OBVIOUS
<1>3. \A i \in 1..Len(s) : i \in 1..(Len(s) + Len(d)) /\ i <= Len(s)
  BY <1>2
<1>4. \A i \in 1..Len(d) : /\ Len(s) + i \in 1..(Len(s) + Len(d)) /\ ~(Len(s) + i <= Len(s))
                           /\ Len(s) + i - Len(s) = i
  BY <1>2
<1>5. QED
  BY <1>1, <1>3, <1>4 DEF Extends

LEMMA Grown ==
  ASSUME NEW T, NEW a \in Seq(T), NEW b \in Seq(T), NEW d \in Seq(T)
  PROVE  /\ Joined(a, b, <<>>) \in Seq(T) /\ Joined(a, b, d) \in Seq(T)
         /\ Extends(Joined(a, b, d), Joined(a, b, <<>>), d)
<1> DEFINE s == a \o b
<1>1. s \in Seq(T)
  OBVIOUS
<1> HIDE DEF s
<1>2. s \o <<>> = s
  BY <1>1, ConcatEmptySeq
<1>3. s \o d \in Seq(T) /\ Extends(s \o d, s, d)
  BY <1>1, ConcatExtends
<1>4. QED
  BY <1>1, <1>2, <1>3 DEF Joined, s

LEMMA ComingFacts ==
  ASSUME Typed
  PROVE  /\ Coming \in Seq(ByteT) /\ Len(Coming) \in Nat
         /\ Len(Coming) = Len(inputBuffer) + Len(uart) + Len(todo)
         /\ Len(inputBuffer) \in Nat /\ Len(uart) \in Nat /\ Len(todo) \in Nat
<1>1. inputBuffer \in Seq(ByteT) /\ uart \in Seq(ByteT) /\ todo \in Seq(ByteT)
  BY DEF Typed, Texts
<1>2. Coming \in Seq(ByteT)
  BY <1>1, Grown DEF Coming
<1>3. Len(Coming) = Len(inputBuffer) + Len(uart) + Len(todo)
  BY <1>1, Lengths, SMT DEF Coming
<1>4. QED
  BY <1>1, <1>2, <1>3

LEMMA LineKind ==
  ASSUME NEW k \in AllKinds
  PROVE  LineLength(k) \in Nat /\ Len(Line(k)) = LineLength(k) /\ LineLength(k) >= 3
         /\ Line(k)[Len(Line(k))].kind = k
<1>1. LineLength(k) \in Nat /\ LineLength(k) >= 3
  BY SerialAssumption DEF LineLength
<1>2. Line(k) \in Seq(Bytes) /\ Len(Line(k)) = LineLength(k)
  BY <1>1, ByteSets DEF Line
<1>3. LineLength(k) \in 1..LineLength(k)
  BY <1>1
<1>4. Line(k)[LineLength(k)].kind = k
  BY <1>3 DEF Line, Byte
<1>5. QED
  BY <1>1, <1>2, <1>4

\* The kinds of such a host, and its lines.
LEMMA DesertedFacts ==
  /\ Kinds("deserted") = DesertedKinds
  /\ DesertedKinds \subseteq PatientKinds /\ DesertedKinds \subseteq AllKinds
BY DEF Kinds, DesertedKinds, PatientKinds, AllKinds, AllStyles

-----------------------------------------------------------------------------
(* The host                                                                *)

LEMMA DesertedStarts ==
  ASSUME Deserted, style = "deserted", NEW k \in AllKinds, HostStarts(k)
  PROVE  Deserted'
<1> DEFINE s == Joined(inputBuffer, uart, <<>>)
           n == Len(s)
           L == Line(k)
<1>1. k \in DesertedKinds /\ k \in PatientKinds
  BY DesertedFacts DEF HostStarts
<1>2. /\ phase = "idle" /\ phase' = "line" /\ kind' = k /\ todo' = L
      /\ UNCHANGED <<uart, pc, lineCompleted, inputBuffer, reading, sendBuffer, gsCertLoading,
                     PemCertificate, gsFlag_Connecting, scanning, gsFlag_Busy>>
  BY DEF HostStarts, send, cert, jobs
<1>3. reading = -1 /\ todo = <<>> /\ Len(s) <= SendLength /\ \A i \in 1..n : s[i].ch # "LF"
  BY <1>2 DEF Deserted, ByPhase, RestOnly, Coming
<1>4. /\ L \in Seq(ByteT) /\ Len(L) = 3
      /\ L[1].ch = "A" /\ L[2].ch = "c" /\ L[3].ch = "LF" /\ L[3].kind = k
  <2>1. L \in Texts /\ Len(L) = 3 /\ L[1].ch = "A" /\ L[2].ch = "c" /\ L[3].ch = "LF"
    BY <1>1, LineFacts
  <2>2. L[Len(L)].kind = k
    BY LineKind
  <2> HIDE DEF L
  <2>3. QED
    BY <2>1, <2>2 DEF Texts
<1>5. inputBuffer \in Seq(ByteT) /\ uart \in Seq(ByteT)
  BY DEF Deserted, Typed, Texts
<1>6. Coming' = Joined(inputBuffer, uart, L)
  BY <1>2 DEF Coming
<1> HIDE DEF L
<1>7. /\ s \in Seq(ByteT) /\ n \in Nat
      /\ Len(Coming') = n + 3
      /\ \A i \in 1..n : Coming'[i] = s[i]
      /\ \A i \in 1..3 : Coming'[n + i] = L[i]
  <2>1. /\ s \in Seq(ByteT) /\ Len(Joined(inputBuffer, uart, L)) = n + Len(L)
        /\ \A i \in 1..n : Joined(inputBuffer, uart, L)[i] = s[i]
        /\ \A i \in 1..Len(L) : Joined(inputBuffer, uart, L)[n + i] = L[i]
    <3>1. s \in Seq(ByteT) /\ Extends(Joined(inputBuffer, uart, L), s, L)
      BY <1>4, <1>5, Grown, Zenon
    <3>2. QED
      BY <3>1 DEF Extends
  <2> HIDE DEF s
  <2>2. QED
    BY <1>4, <1>6, <2>1
<1> HIDE DEF s, n
<1>8. RestAndLine'
  <2>1. Len(Coming') \in 1..(SendLength + 3)
    BY <1>3, <1>7, SerialAssumption DEF n
  <2>2. \A i \in 1..Len(Coming') : Coming'[i].ch = "LF" <=> i = Len(Coming')
    <3> SUFFICES ASSUME NEW i \in 1..(n + 3)
                 PROVE  Coming'[i].ch = "LF" <=> i = n + 3
      BY <1>7
    <3>1. i \in 1..n \/ i = n + 1 \/ i = n + 2 \/ i = n + 3
      BY <1>7
    <3>2. CASE i \in 1..n
      BY <1>3, <1>7, <3>2
    <3>3. CASE i = n + 1
      BY <1>4, <1>7, <3>3
    <3>4. CASE i = n + 2
      BY <1>4, <1>7, <3>4
    <3>5. CASE i = n + 3
      BY <1>4, <1>7, <3>5
    <3>6. QED
      BY <3>1, <3>2, <3>3, <3>4, <3>5
  <2>3. Coming'[Len(Coming')].kind = kind'
    BY <1>2, <1>4, <1>7
  <2>4. QED
    BY <2>1, <2>2, <2>3 DEF RestAndLine
<1>9. Typed' /\ kind' \in DesertedKinds /\ NoJob' /\ ~gsCertLoading'
  BY <1>1, <1>2, <1>4 DEF Deserted, Typed, NoJob, Texts
<1>10. ByPhase'
  <2>1. L # <<>>
    <3>1. Len(<<>>) = 0 /\ 3 # 0
      OBVIOUS
    <3>2. QED
      BY <1>4, <3>1, Zenon
  <2>2. QED
    BY <1>2, <1>3, <1>8, <2>1 DEF ByPhase
<1>11. ByPlace'
  <2>1. ~InPass'
    BY <1>2 DEF Deserted, ByPlace, InPass
  <2>2. ASSUME pc = "discard" PROVE Coming'[1].ch = "A"
    <3>1. CASE n = 0
      BY <1>4, <1>7, <3>1
    <3>2. CASE n # 0
      <4>1. Coming = s /\ s # <<>> /\ 1 \in 1..n
        BY <1>3, <1>7, <3>2 DEF Coming, s, n
      <4>2. Coming[1].ch = "A"
        BY <1>3, <2>2, <4>1 DEF Deserted, ByPlace
      <4>3. QED
        BY <1>7, <4>1, <4>2
    <3>3. QED
      BY <3>1, <3>2
  <2>3. pc = "discard" => inputBuffer = <<>>
    BY DEF Deserted, ByPlace
  <2>4. QED
    BY <1>2, <1>3, <2>1, <2>2, <2>3 DEF ByPlace
<1>12. QED
  BY <1>9, <1>10, <1>11 DEF Deserted

LEMMA DesertedSends ==
  ASSUME Deserted, style = "deserted", HostSends
  PROVE  Deserted'
<1>1. /\ todo # <<>> /\ uart' = Append(uart, Head(todo)) /\ todo' = Tail(todo)
      /\ UNCHANGED <<kind, pc, lineCompleted, inputBuffer, reading, sendBuffer,
                     gsCertLoading, PemCertificate, gsFlag_Connecting, scanning, gsFlag_Busy>>
  BY DEF HostSends, send, cert, jobs
<1>2. /\ uart \in Seq(ByteT) /\ todo \in Seq(ByteT)
      /\ inputBuffer \in Seq(ByteT) /\ sendBuffer \in Seq(ByteT)
  BY DEF Deserted, Typed, Texts
<1>3. /\ uart' \in Texts /\ todo' \in Texts /\ Len(todo') = Len(todo) - 1 /\ Len(todo) \in Nat
      /\ \A a \in Seq(ByteT) : Joined(a, uart', todo') = Joined(a, uart, todo)
  <2>1. \A a \in Seq(ByteT) :
          Joined(a, Append(uart, Head(todo)), Tail(todo)) = Joined(a, uart, todo)
    BY <1>1, <1>2, SendByte, SMT
  <2>2. /\ Append(uart, Head(todo)) \in Seq(ByteT) /\ Tail(todo) \in Seq(ByteT)
        /\ Len(Tail(todo)) = Len(todo) - 1 /\ Len(todo) \in Nat
    BY <1>1, <1>2
  <2>3. QED
    BY <1>1, <2>1, <2>2 DEF Texts
<1>4. Coming' = Coming /\ Joined(sendBuffer, uart, todo)' = Joined(sendBuffer, uart, todo)
  BY <1>1, <1>2, <1>3 DEF Coming
<1>5. phase \in {"line", "data"}
  BY <1>1 DEF Deserted, Typed, ByPhase, RestOnly
<1>6. Typed' /\ kind' \in DesertedKinds /\ NoJob' /\ ~gsCertLoading'
  <2>1. phase' \in {"idle", "line", "reply", "data", "result"}
    BY DEF HostSends, Deserted, Typed
  <2>2. QED
    BY <1>1, <1>3, <2>1 DEF Deserted, Typed, NoJob
<1>7. ~InPass'
  BY <1>1, <1>5 DEF Deserted, ByPlace, InPass
<1>8. todo' = <<>> <=> ~(Len(todo) > 1)
  <2>1. todo' = <<>> <=> Len(todo') = 0
    <3>1. Len(<<>>) = 0
      OBVIOUS
    <3>2. Len(todo') = 0 => todo' = <<>>
      BY <1>3, NoneLeft
    <3>3. QED
      BY <3>1, <3>2, Zenon
  <2>2. Len(todo) # 0
    BY <1>1, <1>2
  <2>3. QED
    BY <1>3, <2>1, <2>2
<1>9. CASE phase = "line"
  <2>1. reading = -1 /\ RestAndLine
    BY <1>9 DEF Deserted, ByPhase
  <2>2. reading' = -1 /\ RestAndLine'
    BY <1>1, <1>4, <2>1 DEF RestAndLine
  <2>3. phase' = IF Len(todo) > 1 THEN "line" ELSE "reply"
    BY <1>9 DEF HostSends
  <2>4. ByPhase'
    BY <1>8, <2>2, <2>3 DEF ByPhase
  <2>5. ByPlace'
    BY <1>1, <1>4, <1>7, <2>1 DEF Deserted, ByPlace
  <2>6. QED
    BY <1>6, <2>4, <2>5 DEF Deserted
<1>10. CASE phase = "data"
  <2>1. PayloadComing /\ pc # "discard"
    BY <1>10 DEF HostSends, Deserted, ByPhase
  <2>2. PayloadComing'
    BY <1>1, <1>4, <2>1 DEF PayloadComing
  <2>3. phase' = IF Len(todo) > 1 THEN "data" ELSE "result"
    BY <1>10 DEF HostSends
  <2>4. ByPhase'
    BY <1>8, <2>2, <2>3 DEF ByPhase
  <2>5. ByPlace'
    BY <1>1, <1>7, <2>1 DEF ByPlace
  <2>6. QED
    BY <1>6, <2>4, <2>5 DEF Deserted
<1>11. QED
  BY <1>5, <1>9, <1>10

-----------------------------------------------------------------------------
(* loop()                                                                  *)

\* The value of a text's first byte, and that of its last one when there is no more.
LEMMA FirstOfComing ==
  ASSUME Typed, uart # <<>>, inputBuffer = <<>>
  PROVE  Coming # <<>> /\ Coming[1] = c
<1>1. inputBuffer \in Texts /\ Len(<<>>) = 0
  BY DEF Typed
<1>2. c = Joined(inputBuffer, uart, todo)[Len(inputBuffer) + 1]
  BY <1>1, NextByte
<1>3. Coming[1] = c
  BY <1>1, <1>2 DEF Coming
<1>4. Len(Coming) # 0
  <2>1. Len(uart) >= 1
    BY <1>1, NextByte
  <2>2. QED
    BY <2>1, ComingFacts
<1>5. QED
  BY <1>1, <1>3, <1>4

LEMMA DesertedPass ==
  ASSUME Deserted, UNCHANGED <<phase, kind, todo, uart, inputBuffer, reading, sendBuffer>>,
         UNCHANGED <<gsCertLoading, PemCertificate, gsFlag_Connecting, scanning, gsFlag_Busy>>,
         pc' = "discard" => pc = "discard", InPass' => InPass
  PROVE  Deserted'
<1>1. Coming' = Coming
  BY DEF Coming
<1>2. Typed' /\ kind' \in DesertedKinds /\ NoJob' /\ ~gsCertLoading'
  BY DEF Deserted, Typed, NoJob
<1>3. /\ RestOnly => RestOnly'
      /\ RestAndLine => RestAndLine'
      /\ PayloadComing => PayloadComing'
  BY <1>1 DEF RestOnly, RestAndLine, PayloadComing
<1>4. ByPhase'
  BY <1>3 DEF Deserted, ByPhase
<1>5. ByPlace'
  BY <1>1 DEF Deserted, ByPlace
<1>6. QED
  BY <1>2, <1>4, <1>5 DEF Deserted

LEMMA DesertedPasses ==
  ASSUME Deserted,
         Links \/ SerialEnd \/ JoinPending \/ NoLine \/ RefuseLine \/ DiscardByte \/ DiscardEnd
  PROVE  Deserted'
<1>1. CASE Links
  BY <1>1, DesertedPass DEF Links, host, send, cert, jobs, InPass
<1>2. CASE SerialEnd
  BY <1>2, DesertedPass DEF SerialEnd, host, send, cert, jobs, InPass
<1>3. CASE JoinPending
  BY <1>3, DesertedPass DEF JoinPending, host, send, cert, jobs, InPass
<1>4. CASE NoLine
  BY <1>4, DesertedPass DEF NoLine, host, send, cert, jobs, InPass
<1>5. CASE RefuseLine
  BY <1>5 DEF RefuseLine, Deserted, NoJob
<1>6. CASE DiscardByte
  <2>1. pc = "discard" /\ uart # <<>> /\ c.ch # "A"
    BY <1>6 DEF DiscardByte
  <2>2. Typed /\ inputBuffer = <<>> /\ (Coming # <<>> => Coming[1].ch = "A")
    BY <2>1 DEF Deserted, ByPlace
  <2>3. QED
    BY <2>1, <2>2, FirstOfComing
<1>7. CASE DiscardEnd
  BY <1>7, DesertedPass DEF DiscardEnd, host, send, cert, jobs, InPass
<1>8. QED
  BY <1>1, <1>2, <1>3, <1>4, <1>5, <1>6, <1>7

\* After the last answer of a command: what is under way goes into the next line.
LEMMA DesertedIdle ==
  ASSUME Deserted, phase' = "idle", todo' = <<>>, kind' = kind, reading' = -1,
         UNCHANGED <<gsCertLoading, PemCertificate, gsFlag_Connecting, scanning, gsFlag_Busy>>,
         inputBuffer' = <<>>, uart' \in Texts, sendBuffer' \in Texts,
         Len(uart') <= SendLength, \A i \in 1..Len(uart') : uart'[i].ch # "LF",
         pc' = "discard" => uart' = <<>>, ~InPass'
  PROVE  Deserted'
<1>1. <<>> \in Texts /\ <<>> \in Seq(ByteT)
  BY DEF Texts
<1>2. Coming' = uart'
  <2>1. uart' \in Seq(ByteT)
    BY DEF Texts
  <2>2. /\ <<>> \o uart' = uart' /\ uart' \o <<>> = uart'
    BY <2>1, ConcatEmptySeq
  <2>3. QED
    BY <2>2 DEF Coming, Joined
<1>3. Typed' /\ kind' \in DesertedKinds /\ NoJob' /\ ~gsCertLoading'
  BY <1>1 DEF Deserted, Typed, NoJob
<1>4. RestOnly'
  BY <1>2 DEF RestOnly
<1>5. ByPhase'
  BY <1>4 DEF ByPhase
<1>6. ByPlace'
  BY <1>2 DEF ByPlace
<1>7. QED
  BY <1>3, <1>5, <1>6 DEF Deserted

\* The bytes of a payload that are still to be read.
LEMMA RestOfPayload ==
  ASSUME Deserted, PayloadComing
  PROVE  /\ Len(uart) <= SendLength
         /\ \A i \in 1..Len(uart) : uart[i].ch # "LF"
<1> DEFINE s == Joined(sendBuffer, uart, <<>>)
<1>1. /\ sendBuffer \in Seq(ByteT) /\ uart \in Seq(ByteT) /\ todo \in Seq(ByteT)
  BY DEF Deserted, Typed, Texts
<1>2. s = sendBuffer \o uart
  <2>1. sendBuffer \o uart \in Seq(ByteT)
    BY <1>1
  <2>2. QED
    BY <2>1, ConcatEmptySeq DEF Joined
<1>3. s \in Seq(ByteT) /\ Extends(Payload, s, todo)
  BY <1>1, Grown, Zenon DEF PayloadComing
<1>4. Extends(s, sendBuffer, uart)
  BY <1>1, <1>2, ConcatExtends
<1> HIDE DEF s
<1>5. Len(sendBuffer) \in Nat /\ Len(uart) \in Nat /\ Len(todo) \in Nat /\ Len(s) \in Nat
  BY <1>1, <1>3
<1>6. /\ Len(Payload) = Len(s) + Len(todo) /\ Len(s) = Len(sendBuffer) + Len(uart)
      /\ \A i \in 1..Len(s) : Payload[i] = s[i]
      /\ \A i \in 1..Len(uart) : s[Len(sendBuffer) + i] = uart[i]
  BY <1>3, <1>4 DEF Extends
<1>7. Len(Payload) = SendLength /\ SendLength \in Nat
  BY PayloadFacts, SerialAssumption
<1>8. Len(uart) <= SendLength
  BY <1>5, <1>6, <1>7
<1>9. ASSUME NEW i \in 1..Len(uart) PROVE uart[i].ch # "LF"
  <2>1. Len(sendBuffer) + i \in 1..Len(s) /\ Len(sendBuffer) + i \in 1..SendLength
    BY <1>5, <1>6, <1>7
  <2>2. uart[i] = Payload[Len(sendBuffer) + i]
    BY <1>6, <2>1
  <2>3. Payload[Len(sendBuffer) + i].ch = "p"
    BY <2>1 DEF Payload, Byte
  <2>4. QED
    BY <2>2, <2>3
<1>10. QED
  BY <1>8, <1>9

LEMMA DesertedCloses ==
  ASSUME Deserted, LinkClosed
  PROVE  Deserted'
<1>1. /\ pc = "links" /\ reading # -1 /\ reading' = -1 /\ Reply("CLOSED")
      /\ UNCHANGED <<uart, pc, inputBuffer, sendBuffer>>
      /\ UNCHANGED <<gsCertLoading, PemCertificate, gsFlag_Connecting, scanning, gsFlag_Busy>>
  BY DEF LinkClosed, cert, jobs
<1>2. phase \in {"data", "result"} /\ PayloadComing /\ inputBuffer = <<>>
  BY <1>1 DEF Deserted, Typed, ByPhase, PayloadComing
<1>3. phase' = "idle" /\ todo' = <<>> /\ kind' = kind
  BY <1>1, <1>2, LastAnswer DEF Awaited, Final
<1>4. Len(uart) <= SendLength /\ \A i \in 1..Len(uart) : uart[i].ch # "LF"
  BY <1>2, RestOfPayload
<1>5. uart \in Texts /\ sendBuffer \in Texts /\ ~InPass'
  BY <1>1 DEF Deserted, Typed, InPass
<1>6. QED
  BY <1>1, <1>2, <1>3, <1>4, <1>5, DesertedIdle

\* The last byte that is read for a link is the last one of the payload.
LEMMA PayloadRead ==
  ASSUME Deserted, ReadPayload
  PROVE  /\ PayloadComing /\ phase \in {"data", "result"} /\ pc = "serial" /\ ~lineCompleted
         /\ uart # <<>> /\ uart' = Tail(uart) /\ uart' \in Texts
         /\ Append(sendBuffer, c) \in Texts
         /\ Joined(Append(sendBuffer, c), uart', todo) = Payload
         /\ Len(sendBuffer) + 1 >= reading => /\ uart' = <<>> /\ todo = <<>>
                                              /\ Append(sendBuffer, c) = Payload
<1>1. /\ uart # <<>> /\ uart' = Tail(uart) /\ pc = "serial" /\ ~lineCompleted /\ reading # -1
  BY DEF ReadPayload, Read
<1>2. phase \in {"data", "result"} /\ PayloadComing
  BY <1>1 DEF Deserted, Typed, ByPhase
<1>3. sendBuffer \in Texts /\ todo \in Texts
  BY DEF Deserted, Typed
<1>4. /\ Joined(Append(sendBuffer, c), uart', todo) = Payload
      /\ Append(sendBuffer, c) \in Texts /\ uart' \in Texts /\ Len(uart') = Len(uart) - 1
      /\ Len(Payload) = Len(sendBuffer) + Len(uart) + Len(todo)
      /\ Len(sendBuffer) \in Nat /\ Len(uart) \in Nat /\ Len(uart) >= 1 /\ Len(todo) \in Nat
  BY <1>1, <1>2, <1>3, NextByte DEF Deserted, PayloadComing
<1>5. ASSUME Len(sendBuffer) + 1 >= reading
      PROVE  uart' = <<>> /\ todo = <<>> /\ Append(sendBuffer, c) = Payload
  <2>1. Len(uart') = 0 /\ Len(todo) = 0
    BY <1>2, <1>4, <1>5, PayloadFacts DEF PayloadComing
  <2>2. uart' = <<>> /\ todo = <<>>
    BY <1>3, <1>4, <2>1, NoneLeft
  <2>3. Append(sendBuffer, c) \in Seq(ByteT)
    BY <1>4 DEF Texts
  <2>4. Joined(Append(sendBuffer, c), <<>>, <<>>) = Append(sendBuffer, c)
    BY <2>3, Empties
  <2>5. QED
    BY <1>4, <2>2, <2>4
<1>6. QED
  BY <1>1, <1>2, <1>4, <1>5

LEMMA DesertedReads ==
  ASSUME Deserted, ReadPayload
  PROVE  Deserted'
<1>1. /\ PayloadComing /\ phase \in {"data", "result"} /\ pc = "serial" /\ ~lineCompleted
      /\ uart' = Tail(uart) /\ uart' \in Texts /\ Append(sendBuffer, c) \in Texts
      /\ Joined(Append(sendBuffer, c), uart', todo) = Payload
      /\ Len(sendBuffer) + 1 >= reading => uart' = <<>> /\ todo = <<>>
  BY PayloadRead
<1>2. /\ UNCHANGED <<pc, lineCompleted, inputBuffer>>
      /\ UNCHANGED <<gsCertLoading, PemCertificate, gsFlag_Connecting, scanning, gsFlag_Busy>>
  BY DEF ReadPayload, cert, jobs
<1>3. CASE Len(sendBuffer) + 1 >= reading
  <2>1. reading' = -1 /\ sendBuffer' = <<>> /\ Reply("SEND")
    BY <1>3 DEF ReadPayload
  <2>2. phase' = "idle" /\ todo' = <<>> /\ kind' = kind
    BY <1>1, <2>1, LastAnswer DEF Awaited, Final
  <2>3. inputBuffer' = <<>> /\ sendBuffer' \in Texts /\ ~InPass' /\ uart' = <<>>
    BY <1>1, <1>2, <1>3, <2>1 DEF PayloadComing, InPass, Texts
  <2>4. Len(<<>>) <= SendLength /\ \A i \in 1..Len(<<>>) : <<>>[i].ch # "LF"
    BY SerialAssumption
  <2>5. QED
    BY <1>1, <1>2, <2>1, <2>2, <2>3, <2>4, DesertedIdle
<1>4. CASE ~(Len(sendBuffer) + 1 >= reading)
  <2>1. sendBuffer' = Append(sendBuffer, c) /\ UNCHANGED <<reading, phase, kind, todo>>
    BY <1>4 DEF ReadPayload, host
  <2>2. Typed' /\ kind' \in DesertedKinds /\ NoJob' /\ ~gsCertLoading'
    BY <1>1, <1>2, <2>1 DEF Deserted, Typed, NoJob
  <2>3. PayloadComing'
    BY <1>1, <1>2, <2>1 DEF PayloadComing
  <2>4. ByPhase'
    BY <1>1, <2>1, <2>3 DEF Deserted, ByPhase
  <2>5. ByPlace'
    BY <1>1, <1>2 DEF ByPlace, InPass
  <2>6. QED
    BY <2>2, <2>4, <2>5 DEF Deserted
<1>5. QED
  BY <1>3, <1>4

LEMMA DesertedLine ==
  ASSUME Deserted, ReadLine, Len(inputBuffer) < INPUT_BUFFER_LEN
  PROVE  Deserted'
<1>1. /\ uart # <<>> /\ uart' = Tail(uart) /\ pc = "serial" /\ ~lineCompleted /\ reading = -1
      /\ UNCHANGED <<pc, reading, sendBuffer, gsCertLoading, PemCertificate,
                     gsFlag_Connecting, scanning, gsFlag_Busy>>
  BY DEF ReadLine, Read, send, cert, jobs
<1>2. inputBuffer \in Texts /\ todo \in Texts
  BY DEF Deserted, Typed
<1>3. /\ c = Coming[Len(inputBuffer) + 1]
      /\ Joined(Append(inputBuffer, c), uart', todo) = Coming
      /\ Append(inputBuffer, c) \in Texts /\ uart' \in Texts /\ Len(uart') = Len(uart) - 1
      /\ Len(Coming) = Len(inputBuffer) + Len(uart) + Len(todo)
      /\ Len(inputBuffer) \in Nat /\ Len(uart) \in Nat /\ Len(uart) >= 1 /\ Len(todo) \in Nat
  BY <1>1, <1>2, NextByte DEF Deserted, Coming
<1>4. /\ phase \in {"idle", "line", "reply"}
      /\ phase = "idle" => RestOnly
      /\ phase \in {"line", "reply"} => RestAndLine
  <2>1. phase \notin {"data", "result"}
    BY <1>1, SerialAssumption DEF Deserted, ByPhase, PayloadComing
  <2>2. QED
    BY <2>1 DEF Deserted, Typed, ByPhase
<1>5. /\ inputBuffer' = Append(inputBuffer, c) /\ lineCompleted' = (c.ch = "LF")
      /\ UNCHANGED <<phase, kind, todo>>
  BY DEF ReadLine, host
<1>6. Coming' = Coming
  BY <1>3, <1>5 DEF Coming
<1>7. Typed' /\ kind' \in DesertedKinds /\ NoJob' /\ ~gsCertLoading'
  BY <1>1, <1>3, <1>5 DEF Deserted, Typed, NoJob
<1>8. (RestOnly => RestOnly') /\ (RestAndLine => RestAndLine')
  BY <1>5, <1>6 DEF RestOnly, RestAndLine
<1>9. ByPhase'
  BY <1>1, <1>4, <1>5, <1>8 DEF Deserted, ByPhase
<1>10. ASSUME lineCompleted' PROVE phase = "reply" /\ uart' = <<>>
  <2>1. c.ch = "LF"
    BY <1>5, <1>10
  <2>2. Len(inputBuffer) + 1 \in 1..Len(Coming)
    BY <1>3
  <2>3. RestAndLine /\ phase \in {"line", "reply"}
    BY <1>3, <1>4, <2>1, <2>2 DEF RestOnly
  <2>4. Len(inputBuffer) + 1 = Len(Coming)
    BY <1>3, <2>1, <2>2, <2>3 DEF RestAndLine
  <2>5. Len(uart') = 0 /\ Len(todo) = 0
    BY <1>3, <2>4
  <2>6. uart' = <<>> /\ todo = <<>>
    BY <1>2, <1>3, <2>5, NoneLeft
  <2>7. QED
    BY <2>3, <2>6 DEF Deserted, ByPhase
<1>11. ByPlace'
  BY <1>1, <1>5, <1>10 DEF ByPlace, InPass
<1>12. QED
  BY <1>7, <1>9, <1>11 DEF Deserted

\* A text without its first bytes.
LEMMA Later ==
  ASSUME Typed, inputBuffer' = <<>>, uart # <<>>, uart' = Tail(uart), todo' = todo
  PROVE  LET n == Len(inputBuffer) + 1 IN
         /\ n \in Nat /\ n <= Len(Coming) /\ Coming' \in Seq(ByteT)
         /\ Len(Coming') = Len(Coming) - n
         /\ \A i \in 1..Len(Coming') : Coming'[i] = Coming[n + i]
<1> DEFINE n == Len(inputBuffer) + 1
           a == Append(inputBuffer, c)
           d == Tail(uart) \o todo
<1>1. inputBuffer \in Texts /\ todo \in Texts /\ uart \in Texts
  BY DEF Typed
<1>2. /\ Joined(a, Tail(uart), todo) = Coming
      /\ a \in Seq(ByteT) /\ Tail(uart) \in Seq(ByteT) /\ todo \in Seq(ByteT)
  BY <1>1, NextByte DEF Coming, Texts
<1>3. d \in Seq(ByteT)
  BY <1>2
<1>4. Coming' = d
  <2>1. <<>> \o Tail(uart) = Tail(uart)
    BY <1>2, ConcatEmptySeq
  <2>2. QED
    BY <2>1 DEF Coming, Joined
<1>5. Coming = a \o d
  <2> HIDE DEF a
  <2>1. (a \o Tail(uart)) \o todo = a \o (Tail(uart) \o todo)
    BY <1>2, ConcatAssociative
  <2>2. QED
    BY <1>2, <2>1, Zenon DEF Joined
<1>6. Len(a) = n /\ n \in Nat
  BY <1>1 DEF Texts
<1> HIDE DEF a, d, n
<1>7. Extends(Coming, a, d)
  BY <1>2, <1>3, <1>5, ConcatExtends
<1>8. Len(d) \in Nat
  BY <1>3
<1>9. QED
  BY <1>3, <1>4, <1>6, <1>7, <1>8 DEF Extends, n

\* The overflow takes away what was read.  When the host does not wait for an answer
\* yet, or nothing is left of its line, the two go on as before; otherwise the host
\* has come an answer ahead.
LEMMA DesertedOverflow ==
  ASSUME Deserted, ReadLine, ~(Len(inputBuffer) < INPUT_BUFFER_LEN), ~ahead'
  PROVE  Deserted'
<1>1. /\ uart # <<>> /\ uart' = Tail(uart) /\ pc = "serial" /\ ~lineCompleted
      /\ reading = -1 /\ inputBuffer' = <<>> /\ Reply("ERROR")
      /\ ahead' = (ahead \/ (phase = "reply" /\ uart' # <<>>))
      /\ UNCHANGED <<pc, reading, sendBuffer, gsCertLoading, PemCertificate,
                     gsFlag_Connecting, scanning, gsFlag_Busy, lineCompleted>>
  BY DEF ReadLine, AnsweredEarly, Read, send, cert, jobs
<1>2. inputBuffer \in Texts /\ todo \in Texts
  BY DEF Deserted, Typed
<1>3. /\ uart' \in Texts /\ Len(uart') = Len(uart) - 1
      /\ Len(Coming) = Len(inputBuffer) + Len(uart) + Len(todo)
      /\ Len(inputBuffer) \in Nat /\ Len(uart) \in Nat /\ Len(uart) >= 1 /\ Len(todo) \in Nat
  BY <1>1, <1>2, NextByte DEF Deserted, Coming
<1>4. <<>> \in Texts /\ sendBuffer' \in Texts
  BY <1>1 DEF Deserted, Typed, Texts
<1>5. /\ phase \in {"idle", "line", "reply"}
      /\ phase = "idle" => RestOnly
      /\ phase \in {"line", "reply"} => RestAndLine
  <2>1. phase \notin {"data", "result"}
    BY <1>1, SerialAssumption DEF Deserted, ByPhase, PayloadComing
  <2>2. QED
    BY <2>1 DEF Deserted, Typed, ByPhase
<1>6. ~InPass'
  BY <1>1 DEF InPass
<1>7. CASE phase = "reply"
  <2>1. uart' = <<>>
    BY <1>1, <1>7
  <2>2. phase' = "idle" /\ todo' = <<>> /\ kind' = kind
    BY <1>1, <1>7, LastAnswer DEF Awaited
  <2>3. Len(<<>>) <= SendLength /\ \A i \in 1..Len(<<>>) : <<>>[i].ch # "LF"
    BY SerialAssumption
  <2>4. QED
    BY <1>1, <1>3, <1>4, <1>6, <2>1, <2>2, <2>3, DesertedIdle
<1>8. CASE phase \in {"idle", "line"}
  <2>1. UNCHANGED <<phase, kind, todo>>
    BY <1>1, <1>8 DEF Reply, Awaited
  <2> DEFINE n == Len(inputBuffer) + 1
  <2>2. /\ n \in Nat /\ n <= Len(Coming) /\ Coming' \in Seq(ByteT)
        /\ Len(Coming') = Len(Coming) - n
        /\ \A i \in 1..Len(Coming') : Coming'[i] = Coming[n + i]
    BY <1>1, <2>1, Later DEF Deserted
  <2>3. Len(Coming) \in Nat /\ Len(Coming') \in Nat /\ n >= 1
    BY <1>3, <2>2, ComingFacts DEF Deserted
  <2>4. Len(Coming') = Len(uart') + Len(todo)
    BY <1>3, <2>2, <2>3
  <2> HIDE DEF n
  <2>5. Typed' /\ kind' \in DesertedKinds /\ NoJob' /\ ~gsCertLoading'
    BY <1>1, <1>3, <1>4, <2>1 DEF Deserted, Typed, NoJob
  <2>6. ASSUME phase = "idle" PROVE RestOnly'
    <3>1. RestOnly
      BY <1>5, <2>6
    <3>2. Len(Coming') <= SendLength
      BY <2>2, <2>3, <3>1, SerialAssumption DEF RestOnly
    <3>3. ASSUME NEW i \in 1..Len(Coming') PROVE Coming'[i].ch # "LF"
      <4>1. n + i \in 1..Len(Coming)
        BY <2>2, <2>3
      <4>2. QED
        BY <2>2, <3>1, <4>1 DEF RestOnly
    <3>4. QED
      BY <2>1, <3>1, <3>2, <3>3 DEF RestOnly
  <2>7. ASSUME phase = "line" PROVE RestAndLine' /\ todo # <<>>
    <3>1. RestAndLine /\ todo # <<>>
      BY <1>5, <2>7 DEF Deserted, ByPhase
    <3>2. Len(todo) # 0
      BY <1>2, <3>1, NoneLeft
    <3>3. Len(Coming') \in 1..(SendLength + 3)
      BY <1>3, <2>2, <2>3, <2>4, <3>1, <3>2, SerialAssumption DEF RestAndLine
    <3>4. ASSUME NEW i \in 1..Len(Coming')
          PROVE  Coming'[i].ch = "LF" <=> i = Len(Coming')
      <4>1. n + i \in 1..Len(Coming) /\ (n + i = Len(Coming) <=> i = Len(Coming'))
        BY <2>2, <2>3
      <4>2. QED
        BY <2>2, <3>1, <4>1 DEF RestAndLine
    <3>5. Coming'[Len(Coming')] = Coming[Len(Coming)]
      <4>1. Len(Coming') \in 1..Len(Coming') /\ n + Len(Coming') = Len(Coming)
        BY <2>2, <2>3, <3>3
      <4>2. QED
        BY <2>2, <4>1
    <3>6. QED
      BY <2>1, <3>1, <3>3, <3>4, <3>5 DEF RestAndLine
  <2>8. ByPhase'
    BY <1>1, <1>8, <2>1, <2>6, <2>7 DEF ByPhase
  <2>9. ByPlace'
    BY <1>1, <1>6 DEF ByPlace
  <2>10. QED
    BY <2>5, <2>8, <2>9 DEF Deserted
<1>9. QED
  BY <1>5, <1>7, <1>8

-----------------------------------------------------------------------------
(* A line is executed: the host's, or one that begins with a rest          *)

LEMMA DesertedExecutes ==
  ASSUME Deserted, ProcessCommandBuffer
  PROVE  /\ phase = "reply" /\ reading = -1 /\ todo = <<>> /\ uart = <<>>
         /\ inputBuffer' = <<>> /\ uart' = <<>> /\ ~InPass' /\ pc' = "discard"
         /\ \A k \in AllKinds : inputBuffer = Line(k) => k = kind
<1>1. /\ InPass /\ inputBuffer' = <<>> /\ uart' = uart /\ ~InPass' /\ pc' = "discard"
  BY DEF ProcessCommandBuffer, InPass
<1>2. phase = "reply" /\ uart = <<>>
  BY <1>1 DEF Deserted, ByPlace
<1>3. reading = -1 /\ todo = <<>> /\ RestAndLine
  BY <1>2 DEF Deserted, ByPhase
<1>4. Coming = inputBuffer
  <2>1. inputBuffer \in Seq(ByteT)
    BY DEF Deserted, Typed, Texts
  <2>2. QED
    BY <1>2, <1>3, <2>1, Empties DEF Coming
<1>5. ASSUME NEW k \in AllKinds, inputBuffer = Line(k) PROVE k = kind
  BY <1>3, <1>4, <1>5, LineKind DEF RestAndLine
<1>6. QED
  BY <1>1, <1>2, <1>3, <1>5

LEMMA DesertedAnswer ==
  ASSUME Deserted, Answer
  PROVE  Deserted'
<1>1. ProcessCommandBuffer /\ \E r \in {"OK", "ERROR"} : Reply(r)
  BY DEF Answer
<1>2. UNCHANGED <<reading, sendBuffer, gsCertLoading, PemCertificate,
                  gsFlag_Connecting, scanning, gsFlag_Busy>>
  BY DEF Answer, send, cert, jobs
<1>3. /\ phase = "reply" /\ reading = -1
      /\ inputBuffer' = <<>> /\ uart' = <<>> /\ ~InPass'
  BY <1>1, DesertedExecutes
<1>4. phase' = "idle" /\ todo' = <<>> /\ kind' = kind
  BY <1>1, <1>3, LastAnswer DEF Awaited
<1>5. uart' \in Texts /\ sendBuffer' \in Texts
  BY <1>2, <1>3 DEF Deserted, Typed, Texts
<1>6. Len(<<>>) <= SendLength /\ \A i \in 1..Len(<<>>) : <<>>[i].ch # "LF"
  BY SerialAssumption
<1>7. QED
  BY <1>2, <1>3, <1>4, <1>5, <1>6, DesertedIdle

\* It asks for a payload, and for nothing else.
LEMMA DesertedProcess ==
  ASSUME Deserted, Process
  PROVE  Deserted'
<1>1. CASE Answer
  BY <1>1, DesertedAnswer
<1>2. CASE StartJoin \/ StartScan \/ StartCert
  <2>1. /\ ProcessCommandBuffer
        /\ inputBuffer = Line("join") \/ inputBuffer = Line("scan") \/ inputBuffer = Line("cert")
    BY <1>2 DEF StartJoin, StartScan, StartCert
  <2>2. {"join", "scan", "cert"} \subseteq AllKinds /\ kind \notin {"join", "scan", "cert"}
    BY DEF AllKinds, AllStyles, Kinds, Deserted, DesertedKinds
  <2>3. \A k \in AllKinds : inputBuffer = Line(k) => k = kind
    BY <2>1, DesertedExecutes
  <2>4. QED
    BY <2>1, <2>2, <2>3
<1>3. CASE StartSend
  <2>1. ProcessCommandBuffer /\ Reply(">")
    BY <1>3 DEF StartSend
  <2>2. /\ phase = "reply"
        /\ inputBuffer' = <<>> /\ uart' = <<>> /\ ~InPass' /\ pc' = "discard"
        /\ \A k \in AllKinds : inputBuffer = Line(k) => k = kind
    BY <2>1, DesertedExecutes
  <2>3. {"send", "send0"} \subseteq AllKinds /\ kind # "send0"
    BY DEF AllKinds, AllStyles, Kinds, Deserted, DesertedKinds
  <2>4. kind = "send" /\ reading' = SendLength
    <3>1. inputBuffer # Line("send0")
      BY <2>2, <2>3
    <3>2. inputBuffer = Line("send") /\ reading' = SendLength
      BY <1>3, <3>1 DEF StartSend
    <3>3. QED
      BY <2>2, <2>3, <3>2
  <2>5. phase' = "data" /\ todo' = Payload /\ kind' = kind
    BY <2>1, <2>2, <2>4 DEF Reply, Awaited
  <2>6. /\ sendBuffer' = <<>>
        /\ UNCHANGED <<gsCertLoading, PemCertificate, gsFlag_Connecting, scanning, gsFlag_Busy>>
    BY <1>3 DEF StartSend, cert, jobs
  <2>7. Joined(sendBuffer', uart', todo') = Payload /\ todo' \in Texts /\ <<>> \in Texts
    BY <2>2, <2>5, <2>6, PayloadFacts, Empties DEF Texts
  <2>8. Typed' /\ kind' \in DesertedKinds /\ NoJob' /\ ~gsCertLoading'
    BY <2>2, <2>5, <2>6, <2>7 DEF Deserted, Typed, NoJob
  <2>9. PayloadComing'
    BY <2>2, <2>4, <2>5, <2>7 DEF PayloadComing
  <2>10. ByPhase'
    BY <2>5, <2>9 DEF ByPhase
  <2>11. ByPlace'
    <3>1. reading' # -1
      BY <2>4, SerialAssumption
    <3>2. QED
      BY <2>2, <3>1 DEF ByPlace
  <2>12. QED
    BY <2>8, <2>10, <2>11 DEF Deserted
<1>4. QED
  BY <1>1, <1>2, <1>3 DEF Process

-----------------------------------------------------------------------------
LEMMA DesertedInit == Init => DesertedInv
<1> SUFFICES ASSUME Init, style = "deserted" PROVE Deserted
  BY DEF DesertedInv
<1>1. <<>> \in Texts /\ <<>> \in Seq(ByteT) /\ kind \in PatientKinds /\ kind \in DesertedKinds
  BY DEF Init, PatientKinds, DesertedKinds, Texts
<1>2. Typed /\ NoJob /\ ~gsCertLoading
  BY <1>1 DEF Init, Typed, NoJob
<1>3. Coming = <<>>
  <2>1. inputBuffer = <<>> /\ uart = <<>> /\ todo = <<>>
    BY DEF Init
  <2>2. QED
    BY <1>1, <2>1, Empties DEF Coming
<1>4. RestOnly
  BY <1>3, SerialAssumption DEF Init, RestOnly
<1>5. ByPhase /\ ByPlace
  BY <1>4 DEF Init, ByPhase, ByPlace, InPass
<1>6. QED
  BY <1>1, <1>2, <1>5 DEF Deserted

LEMMA StyleStays == [Next]_vars => style' = style
<1>1. UNCHANGED host => style' = style
  BY DEF host
<1>2. \A r : Reply(r) => style' = style
  BY DEF Reply
<1>3. HostSends \/ HostGivesUp \/ (\E k \in AllKinds : HostStarts(k)) => style' = style
  BY DEF HostStarts, HostSends, HostGivesUp
<1>4. Links \/ SerialEnd \/ CertByte \/ JoinPending \/ NoLine \/ DiscardByte \/ DiscardEnd
        \/ UNCHANGED vars => UNCHANGED host
  BY DEF Links, SerialEnd, CertByte, JoinPending, NoLine, DiscardByte, DiscardEnd, vars
<1>5. LinkClosed \/ CertFailed \/ JoinEnds \/ ScanEnds => \E r : Reply(r)
  BY DEF LinkClosed, CertFailed, JoinEnds, ScanEnds
<1>6. CertRejected \/ CertLoaded => \E r : Reply(r)
  BY DEF CertRejected, CertLoaded, CertEnds
<1>7. ReadPayload \/ ReadLine \/ RefuseLine => UNCHANGED host \/ \E r : Reply(r)
  BY DEF ReadPayload, ReadLine, RefuseLine, host
<1>8. QED
  BY <1>1, <1>2, <1>3, <1>4, <1>5, <1>6, <1>7, ProcessSteps, SerialSteps, Zenon

LEMMA DesertedNext == AheadType /\ DesertedInv /\ [Next]_vars => DesertedInv'
<1> SUFFICES ASSUME AheadType, DesertedInv, [Next]_vars, style' = "deserted", ~ahead'
             PROVE  Deserted'
  BY DEF DesertedInv
<1>1. style = "deserted" /\ Deserted
  BY StyleStays, AheadStep DEF DesertedInv
<1>2. CASE Host
  BY <1>1, <1>2, DesertedStarts, DesertedSends DEF Host, HostGivesUp
<1>3. CASE Loop
  <2>1. ~Cert
    BY <1>1 DEF Cert, CertByte, CertRejected, CertLoaded, CertFailed, ReadCert, Deserted
  <2>2. CASE Links \/ SerialEnd \/ JoinPending \/ NoLine \/ RefuseLine
             \/ DiscardByte \/ DiscardEnd
    BY <1>1, <2>2, DesertedPasses
  <2>3. CASE Process
    BY <1>1, <2>3, DesertedProcess
  <2>4. CASE ReadPayload
    BY <1>1, <2>4, DesertedReads
  <2>5. CASE ReadLine
    BY <1>1, <2>5, DesertedLine, DesertedOverflow
  <2>6. QED
    BY <1>3, <2>1, <2>2, <2>3, <2>4, <2>5 DEF Loop
<1>4. CASE LinkClosed
  BY <1>1, <1>4, DesertedCloses
<1>5. CASE JoinEnds \/ ScanEnds
  BY <1>1, <1>5 DEF JoinEnds, ScanEnds, Deserted, NoJob
<1>6. CASE UNCHANGED vars
  <2>1. /\ UNCHANGED <<phase, kind, todo, uart, inputBuffer, reading, sendBuffer>>
        /\ UNCHANGED <<gsCertLoading, PemCertificate, gsFlag_Connecting, scanning, gsFlag_Busy>>
        /\ UNCHANGED <<pc, lineCompleted>>
    BY <1>6 DEF vars, host, send, cert, jobs
  <2>2. QED
    BY <1>1, <2>1, DesertedPass DEF InPass
<1>7. QED
  BY <1>2, <1>3, <1>4, <1>5, <1>6 DEF Next

\* A patient host's payload, from the invariant of InSync.
LEMMA PatientPayload ==
  ASSUME Agreed, ReadPayload, Len(sendBuffer) + 1 >= reading
  PROVE  Append(sendBuffer, c) = Payload
<1>1. reading = SendLength /\ Joined(sendBuffer, uart, todo) = Payload /\ uart # <<>>
  BY DEF ReadPayload, Read, Agreed, Typed, PhaseInv, IdleInv, LineInv, ReplyInv, DataInv, Quiet
<1>2. sendBuffer \in Texts /\ todo \in Texts /\ Typed
  BY DEF Agreed, Typed
<1>3. /\ Joined(Append(sendBuffer, c), Tail(uart), todo) = Payload
      /\ Append(sendBuffer, c) \in Texts /\ Tail(uart) \in Texts /\ Len(Tail(uart)) = Len(uart) - 1
      /\ Len(Payload) = Len(sendBuffer) + Len(uart) + Len(todo)
      /\ Len(sendBuffer) \in Nat /\ Len(uart) \in Nat /\ Len(uart) >= 1 /\ Len(todo) \in Nat
  BY <1>1, <1>2, NextByte
<1>4. Len(Tail(uart)) = 0 /\ Len(todo) = 0
  BY <1>1, <1>3, PayloadFacts
<1>5. Tail(uart) = <<>> /\ todo = <<>>
  BY <1>2, <1>3, <1>4, NoneLeft
<1>6. Append(sendBuffer, c) \in Seq(ByteT)
  BY <1>3 DEF Texts
<1>7. Joined(Append(sendBuffer, c), <<>>, <<>>) = Append(sendBuffer, c)
  BY <1>6, Empties
<1>8. QED
  BY <1>3, <1>5, <1>7

\* Reading for a link ends with a byte of it, or because the link is gone.
LEMMA EndsReading ==
  ASSUME [Next]_vars, Read, reading # -1, reading' = -1
  PROVE  ReadPayload /\ Len(sendBuffer) + 1 >= reading
<1>1. pc = "serial" /\ uart # <<>> /\ ~lineCompleted
  BY DEF Read
<1>2. ReadPayload
  <2>1. UNCHANGED send => FALSE
    BY DEF send
  <2>2. ASSUME NEW k \in AllKinds, HostStarts(k) PROVE FALSE
    BY <2>1, <2>2 DEF HostStarts
  <2>3. ~HostSends /\ ~HostGivesUp /\ ~SerialEnd /\ ~JoinEnds /\ ~ScanEnds /\ ~UNCHANGED vars
    BY <2>1 DEF HostSends, HostGivesUp, SerialEnd, JoinEnds, ScanEnds, vars
  <2>4. ~ReadCert /\ ~ReadLine
    BY DEF ReadCert, ReadLine
  <2>5. ~CertByte /\ ~CertRejected /\ ~CertLoaded /\ ~CertFailed
    BY <2>4 DEF CertByte, CertRejected, CertLoaded, CertFailed
  <2>6. ~Links /\ ~LinkClosed /\ ~JoinPending /\ ~RefuseLine /\ ~NoLine /\ ~DiscardByte /\ ~DiscardEnd
    BY <1>1 DEF Links, LinkClosed, JoinPending, RefuseLine, NoLine, DiscardByte, DiscardEnd
  <2>7. ~ProcessCommandBuffer
    BY <1>1 DEF ProcessCommandBuffer
  <2>8. QED
    BY <2>2, <2>3, <2>4, <2>5, <2>6, <2>7, ProcessSteps, SerialSteps, Zenon
<1>3. QED
  BY <1>2 DEF ReadPayload

\* What is written to a link is the host's payload for it, whole and in its order,
\* for any length of payloads, any size of inputBuffer and any room in the UART, until
\* an overflow of inputBuffer is answered before the host's line is read to its end
\* (ESP_ATMod.ino:376-403, 497-521).
THEOREM PayloadIntactCorrect == Spec => PayloadIntact
<1> DEFINE Whole == Read /\ reading # -1 /\ reading' = -1
                      /\ style \in {"patient", "deserted"} /\ ~ahead
                      => Append(sendBuffer, c) = Payload
<1>1. TypeOK => AheadType
  BY DEF TypeOK, AheadType
<1>2. Spec => []SyncInv
  BY SyncInit, SyncNext, PTL DEF Spec
<1>3. Spec => []DesertedInv
  BY <1>1, DesertedInit, DesertedNext, SerialTypeCorrect, PTL DEF Spec
<1>4. ASSUME SyncInv, DesertedInv, [Next]_vars PROVE Whole
  <2> SUFFICES ASSUME Read, reading # -1, reading' = -1, style \in {"patient", "deserted"}, ~ahead
               PROVE  Append(sendBuffer, c) = Payload
    OBVIOUS
  <2>1. ReadPayload /\ Len(sendBuffer) + 1 >= reading
    BY <1>4, EndsReading
  <2>2. CASE style = "patient"
    BY <1>4, <2>1, <2>2, PatientPayload DEF SyncInv
  <2>3. CASE style = "deserted"
    BY <1>4, <2>1, <2>3, PayloadRead DEF DesertedInv
  <2>4. QED
    BY <2>2, <2>3
<1>5. QED
  BY <1>2, <1>3, <1>4, PTL DEF Spec, PayloadIntact
=============================================================================
