------------------------------ MODULE ATSerial ------------------------------
(***************************************************************************)
(* The serial side of the ESP_ATMod firmware: how loop() divides the       *)
(* host's byte stream into command lines, CIPSEND payloads and a           *)
(* certificate, refuses lines while it is busy, and discards what came     *)
(* while a command ran.  The host is modelled with it: it sends a line,    *)
(* waits for the answer, and sends the payload or the certificate after    *)
(* the prompt.  What a command does elsewhere is left out; it is known by  *)
(* its kind, that is by what it makes the serial side do next.             *)
(***************************************************************************)
EXTENDS Integers, SequencesExt

CONSTANTS
  Styles,             \* the hosts that are looked at
  INPUT_BUFFER_LEN,   \* 200 in the code, where a line is shorter
  MAX_PEM_CERT_LENGTH,\* 4096 in the code, where a certificate is shorter
  SendLength,         \* bytes of a CIPSEND payload
  UartSize            \* bound: bytes under way to the module

(***************************************************************************)
(* A "patient" host waits for every answer, and after a prompt until the   *)
(* UART is read; so does a "deserted" one, but the peer may end the link   *)
(* its payload is for.  A "failing" one has a certificate refused; to a    *)
(* "hasty" host all of that may happen, its lines may be too long, and it  *)
(* neither waits after a prompt nor for ever.                              *)
(***************************************************************************)
AllStyles == {"patient", "deserted", "failing", "hasty"}

\* Kinds of commands: "send0" is CIPSEND=0, "long" a line that does not fit.
Kinds(s) ==
  CASE s = "patient"  -> {"plain", "join", "scan", "send", "cert"}
    [] s = "deserted" -> {"plain", "send"}
    [] s = "failing"  -> {"plain", "cert"}
    [] s = "hasty"    -> {"send", "send0", "cert", "long"}

AllKinds == UNION {Kinds(s) : s \in AllStyles}

\* Certificates: "m" is a good one, "x" does not decode, "i" has a character no
\* certificate has.
Certs(s) == CASE s = "failing" -> {"x"} [] s = "hasty" -> {"m", "x", "i"} [] OTHER -> {"m"}

ASSUME SerialAssumption ==
  /\ Styles \subseteq AllStyles
  /\ INPUT_BUFFER_LEN \in Nat /\ INPUT_BUFFER_LEN >= 3
  /\ MAX_PEM_CERT_LENGTH \in Nat /\ MAX_PEM_CERT_LENGTH >= 3
  /\ SendLength \in Nat \ {0} /\ UartSize \in Nat \ {0}

VARIABLES
  style,              \* the host's style (external)
  phase, kind, todo,  \* host: what it does, its command, bytes still to send (external)
  uart,               \* bytes received and not read by loop() (external)
  pc,                 \* part of loop() that runs
  lineCompleted,      \* local of loop()
  inputBuffer,        \* inputBuffer[0..inputBufferCnt-1]
  reading,            \* -1, or the sendLength of the link gsLinkIdReading
  sendBuffer,         \* sendBuffer[0..dataRead-1]
  gsCertLoading,
  PemCertificate,     \* PemCertificate[0..PemCertificatePos-1]
  gsFlag_Connecting,
  scanning,           \* a scan's callback is to come (external)
  gsFlag_Busy,
  ahead               \* history: the host had an answer before its line was read

host == <<style, phase, kind, todo>>
jobs == <<gsFlag_Connecting, scanning, gsFlag_Busy>>
send == <<reading, sendBuffer>>
cert == <<gsCertLoading, PemCertificate>>
vars == <<host, uart, pc, lineCompleted, inputBuffer, send, cert, jobs, ahead>>

-----------------------------------------------------------------------------
\* A byte, with the place it has in what the host sends: "A" and "LF" begin and
\* end a line, "c" is any other character of it, "p" a payload byte, "m", "x" or
\* "i" and "E" the body and the end of a certificate.
Byte(ch, k, n) == [ch |-> ch, kind |-> k, n |-> n]

LineLength(k) == IF k = "long" THEN INPUT_BUFFER_LEN + 2 ELSE 3
Line(k) == [n \in 1..LineLength(k) |->
              Byte(IF n = 1 THEN "A" ELSE IF n = LineLength(k) THEN "LF" ELSE "c", k, n)]
Payload == [n \in 1..SendLength |-> Byte("p", "send", n)]
CertText(body) == <<Byte(body, "cert", 1), Byte("E", "cert", 2)>>

Init ==
  /\ style \in Styles
  /\ phase = "idle" /\ kind = "plain" /\ todo = <<>>
  /\ uart = <<>>
  /\ pc = "links"
  /\ lineCompleted = FALSE
  /\ inputBuffer = <<>>
  /\ reading = -1 /\ sendBuffer = <<>>
  /\ gsCertLoading = FALSE /\ PemCertificate = <<>>
  /\ gsFlag_Connecting = FALSE /\ scanning = FALSE /\ gsFlag_Busy = FALSE
  /\ ahead = FALSE

-----------------------------------------------------------------------------
(***************************************************************************)
(* The host                                                                *)
(***************************************************************************)

HostStarts(k) ==
  /\ phase = "idle" /\ k \in Kinds(style)
  /\ phase' = "line" /\ kind' = k /\ todo' = Line(k)
  /\ UNCHANGED <<style, uart, pc, lineCompleted, inputBuffer, send, cert, jobs, ahead>>

HostSends ==
  /\ todo # <<>>
  /\ Len(uart) < UartSize
  /\ phase = "data" /\ style # "hasty" => pc # "discard"
  /\ uart' = Append(uart, Head(todo))
  /\ todo' = Tail(todo)
  /\ phase' = IF Len(todo) > 1 THEN phase
              ELSE IF phase = "line" THEN "reply" ELSE "result"
  /\ UNCHANGED <<style, kind, pc, lineCompleted, inputBuffer, send, cert, jobs, ahead>>

HostGivesUp ==
  /\ style = "hasty"
  /\ phase \in {"reply", "result"}
  /\ phase' = "idle"
  /\ UNCHANGED <<style, kind, todo, uart, pc, lineCompleted, inputBuffer, send, cert, jobs, ahead>>

\* What the host does with an answer: the last one of the command makes it idle
\* again, even when it has not sent all of its data; it does not look at what it
\* is not waiting for.
Final == {"OK", "ERROR", "SEND", "CLOSED"}

Awaited(r) ==
  \/ phase = "reply" /\ r \in {"OK", "ERROR", "busy p..."}
  \/ phase = "reply" /\ r = ">" /\ kind \in {"send", "send0", "cert"}
  \/ phase \in {"data", "result"} /\ r \in Final

Reply(r) ==
  /\ UNCHANGED <<style, kind>>
  /\ \/ /\ Awaited(r) /\ r # ">"
        /\ phase' = "idle" /\ todo' = <<>>
     \/ /\ Awaited(r) /\ r = ">"
        /\ phase' = IF kind = "send0" THEN "result" ELSE "data"
        /\ \/ kind = "send0" /\ todo' = <<>>
           \/ kind = "send" /\ todo' = Payload
           \/ kind = "cert" /\ \E body \in Certs(style) : todo' = CertText(body)
     \/ ~Awaited(r) /\ UNCHANGED <<phase, todo>>

-----------------------------------------------------------------------------
(***************************************************************************)
(* loop(): the scan of the links, which may delete the link being read for *)
(***************************************************************************)

Links ==
  /\ pc = "links"
  /\ pc' = "serial" /\ lineCompleted' = FALSE
  /\ UNCHANGED <<host, uart, inputBuffer, send, cert, jobs, ahead>>

LinkClosed ==
  /\ style \in {"deserted", "hasty"}
  /\ pc = "links" /\ reading # -1
  /\ reading' = -1
  /\ Reply("CLOSED")
  /\ UNCHANGED <<uart, pc, lineCompleted, inputBuffer, sendBuffer, cert, jobs, ahead>>

-----------------------------------------------------------------------------
(***************************************************************************)
(* loop(): reading the UART                                                *)
(***************************************************************************)

c == Head(uart)

Read == pc = "serial" /\ ~lineCompleted /\ uart # <<>>

SerialEnd ==
  /\ pc = "serial"
  /\ lineCompleted \/ uart = <<>>
  /\ pc' = "connect"
  /\ UNCHANGED <<host, uart, lineCompleted, inputBuffer, send, cert, jobs, ahead>>

\* Mutant of ReadPayload: one byte more is awaited.
PayloadOneMore ==
  /\ Read /\ reading # -1
  /\ uart' = Tail(uart)
  /\ IF Len(sendBuffer) + 1 > reading
     THEN reading' = -1 /\ sendBuffer' = <<>> /\ Reply("SEND")
     ELSE sendBuffer' = Append(sendBuffer, c) /\ UNCHANGED <<reading, host>>
  /\ UNCHANGED <<pc, lineCompleted, inputBuffer, cert, jobs, ahead>>

ReadPayload ==
  /\ Read /\ reading # -1
  /\ uart' = Tail(uart)
  /\ IF Len(sendBuffer) + 1 >= reading
     THEN reading' = -1 /\ sendBuffer' = <<>> /\ Reply("SEND")
     ELSE sendBuffer' = Append(sendBuffer, c) /\ UNCHANGED <<reading, host>>
  /\ UNCHANGED <<pc, lineCompleted, inputBuffer, cert, jobs, ahead>>

\* What is not a letter, a digit or one of "/+= -\\\r\n".
Illegal(b) == b.ch \in {"p", "i"}

ReadCert == Read /\ reading = -1 /\ gsCertLoading

\* One byte too many.  "E" comes behind the rest of its marker, which fills the
\* buffer before it does; when it has the last place itself the text is decoded.
Full ==
  IF c.ch = "E" THEN Len(PemCertificate) >= MAX_PEM_CERT_LENGTH
  ELSE Len(PemCertificate) + 1 > MAX_PEM_CERT_LENGTH - 1

\* The certificate goes on: newlines are merged and "\n" is one character, which
\* does not matter here.
CertByte ==
  /\ ReadCert
  /\ ~Illegal(c) /\ ~Full /\ c.ch # "E"
  /\ uart' = Tail(uart)
  /\ PemCertificate' = Append(PemCertificate, c)
  /\ UNCHANGED <<host, pc, lineCompleted, inputBuffer, send, gsCertLoading, jobs, ahead>>

\* Loading is over, one way or the other: what is left in the UART is read, and what
\* is in the buffer is not looked at again.
CertEnds(r) ==
  /\ gsCertLoading' = FALSE /\ PemCertificate' = <<>>
  /\ Reply(r)
  /\ uart' = <<>>
  /\ UNCHANGED <<pc, lineCompleted, inputBuffer, send, jobs, ahead>>

\* An illegal character, or no more room.
CertRejected ==
  /\ ReadCert
  /\ Illegal(c) \/ Full
  /\ CertEnds("ERROR")

\* One certificate can be read from the buffer, which may hold more text.
Imports(text) == \A n \in 1..Len(text) : text[n].ch \notin {"x", "E"}

\* OK, or ERROR for a duplicate.
CertLoaded ==
  /\ ReadCert /\ ~Full
  /\ c.ch = "E" /\ Imports(PemCertificate)
  /\ \E r \in {"OK", "ERROR"} : CertEnds(r)

\* loop() returns at once: the buffer and gsCertLoading stay as they are, and the
\* length is not tested.
CertFailed ==
  /\ ReadCert /\ ~Full
  /\ c.ch = "E" /\ ~Imports(PemCertificate)
  /\ uart' = Tail(uart)
  /\ PemCertificate' = Append(PemCertificate, c)
  /\ Reply("ERROR")
  /\ pc' = "links"
  /\ UNCHANGED <<lineCompleted, inputBuffer, send, gsCertLoading, jobs, ahead>>

\* The ERROR of an overflow, taken for the answer to a line of which bytes are still
\* to come: those will be answered, too.
AnsweredEarly == ahead' = (ahead \/ (phase = "reply" /\ uart' # <<>>))

\* Mutants of ReadLine: a buffer one byte longer; an overflow that keeps the line.
ReadLineTooFar ==
  /\ Read /\ reading = -1 /\ ~gsCertLoading
  /\ uart' = Tail(uart)
  /\ IF Len(inputBuffer) <= INPUT_BUFFER_LEN
     THEN /\ inputBuffer' = Append(inputBuffer, c)
          /\ lineCompleted' = (c.ch = "LF")
          /\ UNCHANGED <<host, ahead>>
     ELSE /\ inputBuffer' = <<>>
          /\ Reply("ERROR") /\ AnsweredEarly
          /\ UNCHANGED lineCompleted
  /\ UNCHANGED <<pc, send, cert, jobs>>

OverflowStuck ==
  /\ Read /\ reading = -1 /\ ~gsCertLoading
  /\ uart' = Tail(uart)
  /\ IF Len(inputBuffer) < INPUT_BUFFER_LEN
     THEN /\ inputBuffer' = Append(inputBuffer, c)
          /\ lineCompleted' = (c.ch = "LF")
          /\ UNCHANGED <<host, ahead>>
     ELSE Reply("ERROR") /\ AnsweredEarly /\ UNCHANGED <<lineCompleted, inputBuffer>>
  /\ UNCHANGED <<pc, send, cert, jobs>>

\* A byte of a command line; one too many empties the buffer.
ReadLine ==
  /\ Read /\ reading = -1 /\ ~gsCertLoading
  /\ uart' = Tail(uart)
  /\ IF Len(inputBuffer) < INPUT_BUFFER_LEN
     THEN /\ inputBuffer' = Append(inputBuffer, c)
          /\ lineCompleted' = (c.ch = "LF")
          /\ UNCHANGED <<host, ahead>>
     ELSE /\ inputBuffer' = <<>>
          /\ Reply("ERROR") /\ AnsweredEarly
          /\ UNCHANGED lineCompleted
  /\ UNCHANGED <<pc, send, cert, jobs>>

-----------------------------------------------------------------------------
(***************************************************************************)
(* loop(): the jobs that take time                                         *)
(***************************************************************************)

JoinPending ==
  /\ pc = "connect"
  /\ pc' = "command"
  /\ UNCHANGED <<host, uart, lineCompleted, inputBuffer, send, cert, jobs, ahead>>

JoinEnds ==
  /\ pc = "connect" /\ gsFlag_Connecting
  /\ gsFlag_Connecting' = FALSE /\ gsFlag_Busy' = FALSE
  /\ \E r \in {"OK", "ERROR"} : Reply(r)
  /\ pc' = "command"
  /\ UNCHANGED <<uart, lineCompleted, inputBuffer, send, cert, scanning, ahead>>

\* The callback runs when loop() yields.
ScanEnds ==
  /\ scanning /\ pc \in {"links", "serial"}
  /\ scanning' = FALSE /\ gsFlag_Busy' = FALSE
  /\ Reply("OK")
  /\ UNCHANGED <<uart, pc, lineCompleted, inputBuffer, send, cert, gsFlag_Connecting, ahead>>

-----------------------------------------------------------------------------
(***************************************************************************)
(* loop(): a completed line                                                *)
(***************************************************************************)

\* Every byte of a line that arrives while a job runs is answered "busy p...".
RefuseLine ==
  /\ pc = "command" /\ gsFlag_Busy
  /\ IF inputBuffer # <<>> THEN Reply("busy p...") ELSE UNCHANGED host
  /\ inputBuffer' = <<>>
  /\ pc' = "links"
  /\ UNCHANGED <<uart, lineCompleted, send, cert, jobs, ahead>>

NoLine ==
  /\ pc = "command" /\ ~gsFlag_Busy /\ ~lineCompleted
  /\ pc' = "links"
  /\ UNCHANGED <<host, uart, lineCompleted, inputBuffer, send, cert, jobs, ahead>>

\* Mutant of ProcessCommandBuffer: the line stays in the buffer.
LineStays ==
  /\ pc = "command" /\ ~gsFlag_Busy /\ lineCompleted
  /\ pc' = "discard"
  /\ UNCHANGED <<uart, lineCompleted, inputBuffer>>

\* processCommandBuffer: the handler answers, starts a job, or asks for data.
ProcessCommandBuffer ==
  /\ pc = "command" /\ ~gsFlag_Busy /\ lineCompleted
  /\ inputBuffer' = <<>>
  /\ pc' = "discard"
  /\ UNCHANGED <<uart, lineCompleted>>

Answer ==
  /\ ProcessCommandBuffer
  /\ \/ inputBuffer = Line("plain") /\ Reply("OK")
     \/ Reply("ERROR")
  /\ UNCHANGED <<send, cert, jobs, ahead>>

StartJoin ==
  /\ ProcessCommandBuffer
  /\ inputBuffer = Line("join")
  /\ gsFlag_Connecting' = TRUE /\ gsFlag_Busy' = TRUE
  /\ UNCHANGED <<host, send, cert, scanning, ahead>>

StartScan ==
  /\ ProcessCommandBuffer
  /\ inputBuffer = Line("scan")
  /\ scanning' = TRUE /\ gsFlag_Busy' = TRUE
  /\ UNCHANGED <<host, send, cert, gsFlag_Connecting, ahead>>

\* Mutant of StartSend: dataRead is not set to 0.
SendGoesOn ==
  /\ ProcessCommandBuffer
  /\ \/ inputBuffer = Line("send") /\ reading' = SendLength
     \/ inputBuffer = Line("send0") /\ reading' = 0
  /\ Reply(">")
  /\ UNCHANGED <<sendBuffer, cert, jobs, ahead>>

\* CIPSEND=0 is accepted as well: it takes the first byte of the next line.
StartSend ==
  /\ ProcessCommandBuffer
  /\ \/ inputBuffer = Line("send") /\ reading' = SendLength
     \/ inputBuffer = Line("send0") /\ reading' = 0
  /\ sendBuffer' = <<>>
  /\ Reply(">")
  /\ UNCHANGED <<cert, jobs, ahead>>

StartCert ==
  /\ ProcessCommandBuffer
  /\ inputBuffer = Line("cert")
  /\ gsCertLoading' = TRUE /\ PemCertificate' = <<>>
  /\ Reply(">")
  /\ UNCHANGED <<send, jobs, ahead>>

\* "Discard the garbage that may have come during the processing".
DiscardByte ==
  /\ pc = "discard"
  /\ uart # <<>> /\ c.ch # "A"
  /\ uart' = Tail(uart)
  /\ UNCHANGED <<host, pc, lineCompleted, inputBuffer, send, cert, jobs, ahead>>

DiscardEnd ==
  /\ pc = "discard"
  /\ uart # <<>> => c.ch = "A"
  /\ pc' = "links"
  /\ UNCHANGED <<host, uart, lineCompleted, inputBuffer, send, cert, jobs, ahead>>

-----------------------------------------------------------------------------
Host == (\E k \in AllKinds : HostStarts(k)) \/ HostSends \/ HostGivesUp

Cert == CertByte \/ CertRejected \/ CertLoaded \/ CertFailed

Process == Answer \/ StartJoin \/ StartScan \/ StartSend \/ StartCert

Loop ==
  \/ Links \/ SerialEnd \/ ReadPayload \/ Cert \/ ReadLine
  \/ JoinPending \/ RefuseLine \/ NoLine \/ Process \/ DiscardByte \/ DiscardEnd

Next == Host \/ Loop \/ LinkClosed \/ JoinEnds \/ ScanEnds

Spec == Init /\ [][Next]_vars

(***************************************************************************)
(* loop() goes on, the host sends what it has begun, has always another    *)
(* command and gives up in the end if it ever does, and a job ends while   *)
(* loop() passes again and again.                                          *)
(***************************************************************************)
Fairness ==
  /\ WF_vars(Loop)
  /\ WF_vars(\E k \in AllKinds : HostStarts(k))
  /\ WF_vars(HostSends)
  /\ WF_vars(HostGivesUp)
  /\ SF_vars(JoinEnds)
  /\ SF_vars(ScanEnds)

FairSpec == Spec /\ Fairness

-----------------------------------------------------------------------------
(***************************************************************************)
(* Properties                                                              *)
(***************************************************************************)

Bytes ==
  UNION ({ToSet(Line(k)) : k \in AllKinds} \cup {ToSet(Payload)}
           \cup {ToSet(CertText(body)) : body \in {"m", "x", "i"}})

\* The types, with what fits in each buffer: loop() never writes past the end of
\* inputBuffer, and a certificate fills its buffer at most.
TypeOK ==
  /\ style \in Styles
  /\ phase \in {"idle", "line", "reply", "data", "result"}
  /\ kind \in AllKinds
  /\ pc \in {"links", "serial", "connect", "command", "discard"}
  /\ reading \in {-1, 0, SendLength}
  /\ {gsCertLoading, lineCompleted, gsFlag_Connecting, scanning, gsFlag_Busy}
       \subseteq BOOLEAN
  /\ ahead \in BOOLEAN
  /\ \A buffer \in {todo, uart, inputBuffer, sendBuffer, PemCertificate} :
       ToSet(buffer) \subseteq Bytes
  /\ Len(uart) <= UartSize /\ Len(inputBuffer) <= INPUT_BUFFER_LEN
  /\ Len(sendBuffer) <= SendLength /\ Len(PemCertificate) <= MAX_PEM_CERT_LENGTH

\* With a host that waits for each answer, and after a prompt until the module
\* is ready for data, the two never disagree on what the next byte is: a line
\* that is executed is the host's, whole; a job, a payload and a certificate are
\* those of the host's command, and of a payload and a certificate no byte is lost.
InSync == style = "patient" =>
  /\ pc = "command" /\ lineCompleted =>
       phase = "reply" /\ inputBuffer = Line(kind) /\ ~gsFlag_Busy
  /\ gsFlag_Busy => phase = "reply" /\ kind \in {"join", "scan"}
  /\ reading # -1 => /\ kind = "send" /\ phase \in {"data", "result"}
                     /\ sendBuffer \o uart \o todo = Payload
  /\ gsCertLoading => /\ kind = "cert" /\ phase \in {"data", "result"}
                      /\ \E body \in Certs(style) :
                           PemCertificate \o uart \o todo = CertText(body)

\* What is written to a link is what the host meant for it, all of it and in its
\* order, also when an earlier payload was cut short by the peer and the rest of it
\* is read as command lines, for a rest of any length, unless an overflow of
\* inputBuffer was answered before the host's line was read to its end.
PayloadIntact ==
  [][(Read /\ reading # -1 /\ reading' = -1 /\ style \in {"patient", "deserted"} /\ ~ahead)
       => (Append(sendBuffer, c) = Payload)]_vars

\* "Sends Data" (AT+CIPSEND): as above, whatever the rest has done to the answers.
\* The code breaks it: an overflow is answered at once, what is left of the line once
\* more, and from then on the host is one answer ahead.
PayloadSent ==
  [][(Read /\ reading # -1 /\ reading' = -1 /\ style = "deserted")
       => (Append(sendBuffer, c) = Payload)]_vars

\* Every command of a patient host is answered in the end, also one whose prompt it
\* had to answer with data.
Answered == style = "patient" /\ phase # "idle" ~> phase = "idle"

\* The serial side cannot be talked into silence: whatever rest of a payload, of a
\* certificate or of an overlong line is under way, a line is completed and executed
\* again and again.  Only a host that has come an answer ahead and does not give up
\* may wait for ever for the next one.
HeardAgain == []<>((pc = "command" /\ lineCompleted) \/ (ahead /\ style # "hasty"))

\* "AT+CIPSSLCERT in progress" (gsCertLoading): once the host has its result, the
\* next byte is that of a command line.
CertOver == phase = "idle" => ~gsCertLoading
=============================================================================
