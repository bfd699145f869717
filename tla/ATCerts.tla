------------------------------- MODULE ATCerts -------------------------------
(***************************************************************************)
(* What the ESP_ATMod firmware checks a TLS server with: the list of CA    *)
(* certificates, the fingerprint, the choice between them (CIPSSLAUTH),    *)
(* the loader that takes a certificate from the serial line, and the part  *)
(* of CIPSTART that hands them to a new link.  A list is an object of its  *)
(* own: a link keeps a pointer to the one it was opened with, CAcert       *)
(* points to the one in use.                                               *)
(***************************************************************************)
EXTENDS Integers, SequencesExt

CONSTANTS
  Certs,               \* certificates
  BuiltIn,             \* the one in serverCA_content
  Fingerprints,        \* values the host passes to CIPSSLFP
  Maxima,              \* values of maximumCertificates
  SslSizes,            \* values the host passes to CIPSSLSIZE
  MAX_PEM_CERT_LENGTH, \* 4096 in the code, where a certificate is shorter
  MaxReceived,         \* bound: bytes sent for one certificate
  MaxLists,            \* bound: lists made between two resets
  None                 \* no fingerprint, no link, nothing to check with

\* A certificate in the host's text is its body, one byte here, and "E", the last
\* '-' of its end marker.
Escapes == {"CR", "NL", "BS", "n"}
Bytes == Certs \cup Escapes \cup {"E"}

ASSUME CertsAssumption ==
  /\ BuiltIn \in Certs
  /\ Certs \cap (Escapes \cup {"E", None}) = {}
  /\ None \notin Fingerprints \cup Int
  /\ Maxima \subseteq Nat /\ Maxima # {}
  /\ SslSizes \subseteq {512, 1024, 2048, 4096, 16384}
  /\ MAX_PEM_CERT_LENGTH \in Nat \ {0}
  /\ MaxReceived \in Nat /\ MaxLists \in Nat \ {0}

VARIABLES
  lists,               \* lists[id]: the content of an X509List
  CAcert,              \* the list in use
  fingerprint,         \* None while fingerprintValid is false
  gsCipSslAuth,
  gsCipSslSize,
  maximumCertificates, \* as stored in EEPROM as well
  gsCertLoading,
  PemCertificate,      \* PemCertificate[0..PemCertificatePos-1]
  received,            \* history: what was sent since loading began
  link                 \* None, or what a TLS link was opened with

trust == <<lists, CAcert>>
loader == <<gsCertLoading, PemCertificate, received>>
vars == <<trust, fingerprint, gsCipSslAuth, gsCipSslSize, maximumCertificates, loader, link>>

Ids == 1..MaxLists
Loaded == lists[CAcert]

FirstList == [id \in Ids |-> IF id = 1 THEN <<BuiltIn>> ELSE <<>>]

Init ==
  /\ lists = FirstList /\ CAcert = 1
  /\ fingerprint = None
  /\ gsCipSslAuth = 2 /\ gsCipSslSize = 16384
  /\ maximumCertificates \in Maxima
  /\ gsCertLoading = FALSE /\ PemCertificate = <<>> /\ received = <<>>
  /\ link = None

-----------------------------------------------------------------------------
(***************************************************************************)
(* Commands.  While a certificate is loaded everything is a part of it.    *)
(***************************************************************************)

CipSslAuth(auth) ==
  /\ ~gsCertLoading
  /\ auth = 1 => fingerprint # None
  /\ auth = 2 => Loaded # <<>>
  /\ gsCipSslAuth' = auth
  /\ UNCHANGED <<trust, fingerprint, gsCipSslSize, maximumCertificates, loader, link>>

CipSslFp(fp) ==
  /\ ~gsCertLoading
  /\ fingerprint' = fp
  /\ UNCHANGED <<trust, gsCipSslAuth, gsCipSslSize, maximumCertificates, loader, link>>

\* 16384 is kept as 0, the "default value".
CipSslSize(size) ==
  /\ ~gsCertLoading
  /\ gsCipSslSize' = IF size = 16384 THEN 0 ELSE size
  /\ UNCHANGED <<trust, fingerprint, gsCipSslAuth, maximumCertificates, loader, link>>

\* Any number, also one below the number of certificates that are loaded.
CipSslCertMax(max) ==
  /\ ~gsCertLoading
  /\ maximumCertificates' = max
  /\ UNCHANGED <<trust, fingerprint, gsCipSslAuth, gsCipSslSize, loader, link>>

\* mutant of RoomForOne: one certificate too many
RoomAtMaximum == Len(Loaded) <= maximumCertificates

RoomForOne == Len(Loaded) < maximumCertificates

\* AT+CIPSSLCERT.  A buffer that an earlier failure left behind is lost.
CipSslCert ==
  /\ ~gsCertLoading
  /\ RoomForOne
  /\ gsCertLoading' = TRUE /\ PemCertificate' = <<>> /\ received' = <<>>
  /\ UNCHANGED <<trust, fingerprint, gsCipSslAuth, gsCipSslSize, maximumCertificates, link>>

\* mutant of Replace: the list is changed where it is
ReplaceInPlace(list) == lists' = [lists EXCEPT ![CAcert] = list] /\ UNCHANGED CAcert

\* CAcert = new X509List: the list before is never freed.
Replace(list) ==
  /\ CAcert < MaxLists
  /\ lists' = [lists EXCEPT ![CAcert + 1] = list]
  /\ CAcert' = CAcert + 1

\* AT+CIPSSLCERT=DELETE,n.  The last certificate can be deleted, whatever
\* gsCipSslAuth is.
CipSslCertDelete(n) ==
  /\ ~gsCertLoading
  /\ Replace(RemoveAt(Loaded, n))
  /\ UNCHANGED <<fingerprint, gsCipSslAuth, gsCipSslSize, maximumCertificates, loader, link>>

Checkers == Fingerprints \cup Ids \cup {None}

\* mutant of ChecksWith: with nothing to check it with, the server is not checked
FallsBack(check) ==
  \/ gsCipSslAuth = 1 /\ fingerprint # None /\ check = fingerprint
  \/ gsCipSslAuth = 2 /\ Loaded # <<>> /\ check = CAcert
  \/ ~(gsCipSslAuth = 1 /\ fingerprint # None) /\ ~(gsCipSslAuth = 2 /\ Loaded # <<>>) /\ check = None

\* What the new client checks the server with; CIPSTART gives up when there is nothing.
ChecksWith(check) ==
  \/ gsCipSslAuth = 0 /\ check = None
  \/ gsCipSslAuth = 1 /\ fingerprint # None /\ check = fingerprint
  \/ gsCipSslAuth = 2 /\ Loaded # <<>> /\ check = CAcert

\* AT+CIPSTART="SSL",...: connect() has checked the server when it returns.
CipStartSsl ==
  /\ ~gsCertLoading
  /\ link = None
  /\ \E check \in Checkers :
       ChecksWith(check) /\ link' = [auth |-> gsCipSslAuth, check |-> check]
  /\ UNCHANGED <<trust, fingerprint, gsCipSslAuth, gsCipSslSize, maximumCertificates, loader>>

\* CIPCLOSE, the peer, a failed connect().
LinkCloses ==
  /\ link # None
  /\ link' = None
  /\ UNCHANGED <<trust, fingerprint, gsCipSslAuth, gsCipSslSize, maximumCertificates, loader>>

\* AT+RST, or the power: what is not in EEPROM is as it was at first.
Reset ==
  /\ lists' = FirstList /\ CAcert' = 1
  /\ fingerprint' = None
  /\ gsCipSslAuth' = 2 /\ gsCipSslSize' = 16384
  /\ gsCertLoading' = FALSE /\ PemCertificate' = <<>> /\ received' = <<>>
  /\ link' = None
  /\ UNCHANGED maximumCertificates

-----------------------------------------------------------------------------
(***************************************************************************)
(* The loader                                                              *)
(***************************************************************************)

\* mutant of EndsEscape: the backslash stays
EscapeKept(text, b) == FALSE

EndsEscape(text, b) == b = "n" /\ text # <<>> /\ Last(text) = "BS"

\* mutant of PutNewline: a newline is taken wherever it comes
PutEveryNewline(text) == Append(text, "NL")

\* The first of several newlines is enough, and none at the beginning.
PutNewline(text) ==
  IF text = <<>> THEN text ELSE IF Last(text) = "NL" THEN text ELSE Append(text, "NL")

\* The text with the byte b: '\r' and "\n" are newlines.
Put(text, b) ==
  IF EndsEscape(text, b) THEN PutNewline(Front(text))
  ELSE IF b \in {"CR", "NL"} THEN PutNewline(text)
  ELSE Append(text, b)

\* BearSSL finds this certificate in a text, and no other; a backslash spoils it.
Imports(text, cert) ==
  /\ "BS" \notin ToSet(text)
  /\ \E i \in 1..Len(text) :
       text[i] = cert /\ \A j \in 1..Len(text) : text[j] \in Certs => j = i

\* mutant of IsDuplicate: only the first certificate is looked at
IsFirst(cert) == Loaded # <<>> /\ Loaded[1] = cert

\* checkCertificateDuplicatesAndLoad
IsDuplicate(cert) == cert \in ToSet(Loaded)

Load(cert) ==
  lists' = IF IsDuplicate(cert) THEN lists ELSE [lists EXCEPT ![CAcert] = Append(@, cert)]

Reading == gsCertLoading /\ Len(received) < MaxReceived

KeepsReading(b) ==
  /\ PemCertificate' = Put(PemCertificate, b)
  /\ received' = Append(received, b)
  /\ UNCHANGED gsCertLoading

\* What is in the buffer then is not looked at again, and never freed when a
\* certificate has failed.
StopsReading == gsCertLoading' = FALSE /\ PemCertificate' = <<>> /\ received' = <<>>

NeverFull(text) == FALSE   \* mutant of Full

Full(text) == Len(text) > MAX_PEM_CERT_LENGTH - 1

\* A byte in the middle; one that fills the buffer ends the loading.
PemByte(b) ==
  /\ Reading
  /\ IF Full(Put(PemCertificate, b))
     THEN StopsReading
     ELSE KeepsReading(b)
  /\ UNCHANGED <<trust, fingerprint, gsCipSslAuth, gsCipSslSize, maximumCertificates, link>>

\* The last '-' of the end marker, whose other characters were read before it and
\* did not fill the buffer.
EndMarker == Reading /\ Len(PemCertificate) < MAX_PEM_CERT_LENGTH

\* One certificate has been read.
PemLoaded ==
  /\ EndMarker
  /\ \E cert \in Certs : Imports(PemCertificate, cert) /\ Load(cert)
  /\ StopsReading
  /\ UNCHANGED <<CAcert, fingerprint, gsCipSslAuth, gsCipSslSize, maximumCertificates, link>>

\* Something else has been read: loop() returns and the loading goes on.
PemNotLoaded ==
  /\ EndMarker
  /\ \A cert \in Certs : ~Imports(PemCertificate, cert)
  /\ KeepsReading("E")
  /\ UNCHANGED <<trust, fingerprint, gsCipSslAuth, gsCipSslSize, maximumCertificates, link>>

\* A character no certificate has; one below ' ' is skipped.
PemIllegal ==
  /\ gsCertLoading
  /\ StopsReading
  /\ UNCHANGED <<trust, fingerprint, gsCipSslAuth, gsCipSslSize, maximumCertificates, link>>

Pem == (\E b \in Certs \cup Escapes : PemByte(b)) \/ PemLoaded \/ PemNotLoaded \/ PemIllegal

Command ==
  \/ \E auth \in 0..2 : CipSslAuth(auth)
  \/ \E fp \in Fingerprints : CipSslFp(fp)
  \/ \E size \in SslSizes : CipSslSize(size)
  \/ \E max \in Maxima : CipSslCertMax(max)
  \/ CipSslCert
  \/ \E n \in 1..Len(Loaded) : CipSslCertDelete(n)
  \/ CipStartSsl

Next == Command \/ Pem \/ LinkCloses \/ Reset

Spec == Init /\ [][Next]_vars

-----------------------------------------------------------------------------
(***************************************************************************)
(* Properties                                                              *)
(***************************************************************************)

\* The types, and what fits in the buffer.  A text that does not decode and has its
\* end marker in the last byte fills it, as the return skips the test of the length;
\* the terminator of such a text, and of one that decodes, is written behind it.
TypeOK ==
  /\ lists \in [Ids -> Seq(Certs)] /\ CAcert \in Ids
  /\ fingerprint \in Fingerprints \cup {None}
  /\ gsCipSslAuth \in 0..2
  /\ gsCipSslSize \in {0, 16384} \cup SslSizes
  /\ maximumCertificates \in Maxima
  /\ gsCertLoading \in BOOLEAN
  /\ Len(PemCertificate) <= MAX_PEM_CERT_LENGTH
  /\ received \in Seq(Bytes) /\ PemCertificate \in Seq(Bytes)
  /\ link = None \/ link \in [auth : 0..2, check : Checkers]

\* No certificate is twice in a list, whatever was deleted and loaded again.
NoDuplicates == \A id \in Ids : IsInjective(lists[id])

\* A link that was to check its server does: with a fingerprint, or with a list
\* that has certificates, also after the certificates were deleted and after the
\* authentication was chosen for a list that is empty now.
ServerChecked ==
  link # None =>
    /\ link.auth = 1 => link.check \in Fingerprints
    /\ link.auth = 2 => link.check \in Ids /\ lists[link.check] # <<>>

\* The list an open link points to is not taken from under it: certificates are
\* added at most.
AnchorsStay ==
  [][(link # None /\ link' # None)
       => (link.auth = 2 => IsPrefix(lists[link.check], lists'[link.check]))]_vars

\* A certificate is added to the list in use only, and only up to the maximum
\* that holds then: CIPSSLCERT checks it when loading begins.
WithinMaximum ==
  [][Pem /\ lists' # lists
       => /\ lists' = [lists EXCEPT ![CAcert] = lists'[CAcert]]
          /\ Len(lists'[CAcert]) <= maximumCertificates]_vars

(***************************************************************************)
(* What the loader is to make of a text: "\n" and '\r' are newlines, and   *)
(* a newline goes at the beginning and after a newline, as does the        *)
(* backslash of an escape.                                                 *)
(***************************************************************************)
IsEscape(s, i) == i \in 1..(Len(s) - 1) /\ s[i] = "BS" /\ s[i + 1] = "n"

IsNewline(s, i) == s[i] \in {"CR", "NL"} \/ IsEscape(s, i - 1)

Newlined(s) == [i \in 1..Len(s) |-> IF IsNewline(s, i) THEN "NL" ELSE s[i]]

\* The place before that of a newline.
Before(s, i) == IF IsEscape(s, i - 1) THEN i - 2 ELSE i - 1

KeptPlaces(s) ==
  {i \in 1..Len(s) :
     /\ ~IsEscape(s, i)
     /\ IsNewline(s, i) => Before(s, i) # 0 /\ ~IsNewline(s, Before(s, i))}

\* The text is what s has at these places, in their order.
IsPick(text, s, places) ==
  /\ Len(text) = Cardinality(places)
  /\ \A i \in places : text[Cardinality({j \in places : j <= i})] = s[i]

\* The text that is decoded is the host's, its newlines normalised, however the
\* escapes, the newlines and a failed end marker follow each other.
TextNormalised == gsCertLoading => IsPick(PemCertificate, Newlined(received), KeptPlaces(received))
=============================================================================
