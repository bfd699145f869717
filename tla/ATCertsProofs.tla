---------------------------- MODULE ATCertsProofs ----------------------------
(***************************************************************************)
(* Theorems about ATCerts, for any certificates, fingerprints and bounds:  *)
(* type correctness; no certificate is twice in a list; a TLS link that    *)
(* was to check its server has something to check it with, and keeps it.   *)
(***************************************************************************)
EXTENDS ATCerts, SequenceTheorems, FiniteSetTheorems, TLAPS

\* The step, action by action.
LEMMA CertSteps ==
  ASSUME [Next]_vars,
         NEW P,
         ASSUME NEW auth \in 0..2, CipSslAuth(auth) PROVE P,
         ASSUME NEW fp \in Fingerprints, CipSslFp(fp) PROVE P,
         ASSUME NEW size \in SslSizes, CipSslSize(size) PROVE P,
         ASSUME NEW max \in Maxima, CipSslCertMax(max) PROVE P,
         ASSUME CipSslCert PROVE P,
         ASSUME NEW n \in 1..Len(Loaded), CipSslCertDelete(n) PROVE P,
         ASSUME CipStartSsl PROVE P,
         ASSUME NEW b \in Certs \cup Escapes, PemByte(b) PROVE P,
         ASSUME PemLoaded PROVE P,
         ASSUME PemNotLoaded PROVE P,
         ASSUME PemIllegal PROVE P,
         ASSUME LinkCloses PROVE P,
         ASSUME Reset PROVE P,
         ASSUME UNCHANGED vars PROVE P
  PROVE  P
BY DEF Next, Command, Pem

-----------------------------------------------------------------------------
(***************************************************************************)
(* The lists                                                               *)
(***************************************************************************)

\* What deleting the n-th certificate leaves.
LEMMA Removed ==
  ASSUME NEW S, NEW s \in Seq(S), NEW n \in 1..Len(s)
  PROVE  /\ RemoveAt(s, n) \in Seq(S)
         /\ Len(RemoveAt(s, n)) = Len(s) - 1
         /\ \A i \in 1..(Len(s) - 1) : RemoveAt(s, n)[i] = s[IF i < n THEN i ELSE i + 1]
<1> DEFINE a == SubSeq(s, 1, n - 1)
           b == SubSeq(s, n + 1, Len(s))
<1>1. /\ a \in Seq(S) /\ Len(a) = n - 1
      /\ \A i \in 1..(n - 1) : a[i] = s[i]
  BY SubSeqProperties
<1>2. /\ b \in Seq(S) /\ Len(b) = Len(s) - n
      /\ \A i \in 1..(Len(s) - n) : b[i] = s[n + i]
  BY SubSeqProperties
<1> HIDE DEF a, b
<1>3. /\ a \o b \in Seq(S)
      /\ Len(a \o b) = Len(s) - 1
      /\ \A i \in 1..(Len(s) - 1) : (a \o b)[i] = IF i <= n - 1 THEN a[i] ELSE b[i - (n - 1)]
  BY <1>1, <1>2, ConcatProperties
<1>4. \A i \in 1..(Len(s) - 1) : i >= n => i - (n - 1) \in 1..(Len(s) - n) /\ n + (i - (n - 1)) = i + 1
  OBVIOUS
<1>5. \A i \in 1..(Len(s) - 1) : (a \o b)[i] = s[IF i < n THEN i ELSE i + 1]
  BY <1>1, <1>2, <1>3, <1>4
<1>6. QED
  BY <1>3, <1>5 DEF a, b, RemoveAt

LEMMA RemovedInjective ==
  ASSUME NEW S, NEW s \in Seq(S), NEW n \in 1..Len(s), IsInjective(s)
  PROVE  IsInjective(RemoveAt(s, n))
<1> DEFINE t == RemoveAt(s, n)
           At(i) == IF i < n THEN i ELSE i + 1
<1>1. t \in Seq(S) /\ Len(t) = Len(s) - 1 /\ \A i \in 1..(Len(s) - 1) : t[i] = s[At(i)]
  BY Removed
<1> HIDE DEF t
<1>2. SUFFICES ASSUME NEW i \in DOMAIN t, NEW j \in DOMAIN t, t[i] = t[j] PROVE i = j
  BY DEF IsInjective, t
<1>3. i \in 1..(Len(s) - 1) /\ j \in 1..(Len(s) - 1)
  BY <1>1
<1>4. s[At(i)] = s[At(j)] /\ At(i) \in DOMAIN s /\ At(j) \in DOMAIN s
  <2>1. \A k \in 1..(Len(s) - 1) : At(k) \in 1..Len(s)
    OBVIOUS
  <2>2. DOMAIN s = 1..Len(s)
    OBVIOUS
  <2> HIDE DEF At
  <2>3. QED
    BY <1>1, <1>2, <1>3, <2>1, <2>2
<1>5. At(i) = At(j)
  BY <1>4 DEF IsInjective
<1>6. QED
  BY <1>3, <1>5

LEMMA AppendedInjective ==
  ASSUME NEW S, NEW s \in Seq(S), NEW e \in S, IsInjective(s), e \notin ToSet(s)
  PROVE  IsInjective(Append(s, e))
<1> DEFINE t == Append(s, e)
<1>1. DOMAIN t = 1..(Len(s) + 1) /\ t[Len(s) + 1] = e /\ \A i \in 1..Len(s) : t[i] = s[i]
  OBVIOUS
<1>2. \A i \in 1..Len(s) : s[i] # e
  BY DEF ToSet
<1>3. DOMAIN s = 1..Len(s)
  OBVIOUS
<1> HIDE DEF t
<1>4. SUFFICES ASSUME NEW i \in DOMAIN t, NEW j \in DOMAIN t, t[i] = t[j] PROVE i = j
  BY DEF IsInjective, t
<1>5. CASE i = Len(s) + 1 \/ j = Len(s) + 1
  BY <1>1, <1>2, <1>4, <1>5
<1>6. CASE i \in 1..Len(s) /\ j \in 1..Len(s)
  BY <1>1, <1>3, <1>4, <1>6 DEF IsInjective
<1>7. QED
  BY <1>1, <1>5, <1>6

-----------------------------------------------------------------------------
(***************************************************************************)
(* Types                                                                   *)
(***************************************************************************)

\* The loader adds one byte at most.
LEMMA PutType ==
  ASSUME NEW text \in Seq(Bytes), NEW b \in Bytes
  PROVE  /\ Put(text, b) \in Seq(Bytes)
         /\ b = "E" => Put(text, b) = Append(text, b)
<1>1. "NL" \in Bytes
  BY DEF Bytes, Escapes
<1>2. \A t \in Seq(Bytes) : PutNewline(t) \in Seq(Bytes)
  BY <1>1 DEF PutNewline
<1>3. text # <<>> => Front(text) \in Seq(Bytes)
  BY DEF Front
<1>4. EndsEscape(text, b) => b = "n" /\ text # <<>>
  BY DEF EndsEscape
<1>5. Append(text, b) \in Seq(Bytes)
  OBVIOUS
<1>6. QED
  BY <1>2, <1>3, <1>4, <1>5 DEF Put

LEMMA FirstListType == FirstList \in [Ids -> Seq(Certs)] /\ 1 \in Ids
BY CertsAssumption DEF FirstList, Ids

\* The types but that of gsCertLoading, which the provers treat by itself.
ValuesOK ==
  /\ lists \in [Ids -> Seq(Certs)] /\ CAcert \in Ids
  /\ fingerprint \in Fingerprints \cup {None}
  /\ gsCipSslAuth \in 0..2
  /\ gsCipSslSize \in {0, 16384} \cup SslSizes
  /\ maximumCertificates \in Maxima
  /\ Len(PemCertificate) <= MAX_PEM_CERT_LENGTH
  /\ received \in Seq(Bytes) /\ PemCertificate \in Seq(Bytes)
  /\ link = None \/ link \in [auth : 0..2, check : Checkers]

LEMMA TypeSplit == TypeOK <=> ValuesOK /\ gsCertLoading \in BOOLEAN
BY DEF TypeOK, ValuesOK

LEMMA EmptyText == <<>> \in Seq(Bytes) /\ Len(<<>>) <= MAX_PEM_CERT_LENGTH
BY CertsAssumption

LEMMA CertTypeInit == Init => TypeOK
<1> SUFFICES ASSUME Init PROVE TypeOK
  OBVIOUS
<1>1. ValuesOK
  BY FirstListType, EmptyText, CertsAssumption DEF Init, ValuesOK
<1>2. gsCertLoading = FALSE
  BY DEF Init
<1>3. QED
  BY <1>1, <1>2, TypeSplit, Zenon

LEMMA LoadingStep == gsCertLoading \in BOOLEAN /\ [Next]_vars => gsCertLoading' \in BOOLEAN
<1> SUFFICES ASSUME gsCertLoading \in BOOLEAN, [Next]_vars PROVE gsCertLoading' \in BOOLEAN
  OBVIOUS
<1> DEFINE Goal == gsCertLoading' \in BOOLEAN
<1>1. UNCHANGED loader => Goal
  BY DEF loader
<1>2. StopsReading => Goal
  BY DEF StopsReading
<1>3. \A b : KeepsReading(b) => Goal
  BY DEF KeepsReading
<1>4. CipSslCert => Goal
  BY DEF CipSslCert
<1>r. Reset => Goal
  <2>1. Reset => gsCertLoading' = FALSE
    BY DEF Reset
  <2>2. QED
    BY <2>1
<1>5. UNCHANGED vars \/ LinkCloses \/ CipStartSsl => UNCHANGED loader
  BY DEF vars, loader, LinkCloses, CipStartSsl
<1>6. \A x : CipSslAuth(x) \/ CipSslFp(x) \/ CipSslSize(x) \/ CipSslCertMax(x) \/ CipSslCertDelete(x)
              => UNCHANGED loader
  BY DEF CipSslAuth, CipSslFp, CipSslSize, CipSslCertMax, CipSslCertDelete
<1>7. \A b : PemByte(b) => StopsReading \/ KeepsReading(b)
  BY DEF PemByte
<1>8. PemLoaded \/ PemIllegal => StopsReading
  BY DEF PemLoaded, PemIllegal
<1>9. PemNotLoaded => KeepsReading("E")
  BY DEF PemNotLoaded
<1> HIDE DEF Goal
<1>10. Goal
  BY <1>1, <1>2, <1>3, <1>4, <1>r, <1>5, <1>6, <1>7, <1>8, <1>9, CertSteps, Zenon
<1>11. QED
  BY <1>10 DEF Goal

LEMMA ValuesStep == ValuesOK /\ [Next]_vars => ValuesOK'
<1> SUFFICES ASSUME ValuesOK, [Next]_vars PROVE ValuesOK'
  OBVIOUS
<1> USE DEF ValuesOK
<1>0. Loaded \in Seq(Certs) /\ \A list \in Seq(Certs), id \in Ids :
                                 [lists EXCEPT ![id] = list] \in [Ids -> Seq(Certs)]
  BY DEF Loaded
<1>e. <<>> \in Seq(Bytes) /\ Len(<<>>) <= MAX_PEM_CERT_LENGTH
  BY EmptyText
<1>1. ASSUME NEW auth \in 0..2, CipSslAuth(auth) PROVE ValuesOK'
  BY <1>1 DEF CipSslAuth, trust, loader
<1>2. ASSUME NEW fp \in Fingerprints, CipSslFp(fp) PROVE ValuesOK'
  BY <1>2 DEF CipSslFp, trust, loader
<1>3. ASSUME NEW size \in SslSizes, CipSslSize(size) PROVE ValuesOK'
  BY <1>3 DEF CipSslSize, trust, loader
<1>4. ASSUME NEW max \in Maxima, CipSslCertMax(max) PROVE ValuesOK'
  BY <1>4 DEF CipSslCertMax, trust, loader
<1>5. ASSUME CipSslCert PROVE ValuesOK'
  BY <1>5, CertsAssumption DEF CipSslCert, trust
<1>6. ASSUME NEW n \in 1..Len(Loaded), CipSslCertDelete(n) PROVE ValuesOK'
  <2>1. RemoveAt(Loaded, n) \in Seq(Certs)
    BY <1>0, Removed
  <2>2. lists' \in [Ids -> Seq(Certs)] /\ CAcert' \in Ids
    BY <1>0, <1>6, <2>1, CertsAssumption DEF CipSslCertDelete, Replace, Ids
  <2>3. QED
    BY <1>6, <2>2 DEF CipSslCertDelete, loader
<1>7. ASSUME CipStartSsl PROVE ValuesOK'
  BY <1>7 DEF CipStartSsl, trust, loader
<1>8. ASSUME NEW b \in Certs \cup Escapes, PemByte(b) PROVE ValuesOK'
  <2>1. b \in Bytes /\ Put(PemCertificate, b) \in Seq(Bytes)
    BY PutType DEF Bytes
  <2>2. Append(received, b) \in Seq(Bytes) /\ Len(Put(PemCertificate, b)) \in Nat
    BY <2>1
  <2>3. CASE Full(Put(PemCertificate, b))
    BY <1>8, <2>3, CertsAssumption DEF PemByte, StopsReading, trust
  <2>4. CASE ~Full(Put(PemCertificate, b))
    <3>1. PemCertificate' = Put(PemCertificate, b) /\ received' = Append(received, b)
      BY <1>8, <2>4 DEF PemByte, KeepsReading
    <3>2. Len(Put(PemCertificate, b)) <= MAX_PEM_CERT_LENGTH
      BY <2>2, <2>4, CertsAssumption DEF Full
    <3>3. QED
      BY <1>8, <2>1, <2>2, <3>1, <3>2 DEF PemByte, trust
  <2>5. QED
    BY <2>3, <2>4
<1>9. ASSUME PemLoaded PROVE ValuesOK'
  <2>1. lists' \in [Ids -> Seq(Certs)]
    BY <1>0, <1>9 DEF PemLoaded, Load, Loaded
  <2>2. QED
    BY <1>9, <2>1, CertsAssumption DEF PemLoaded, StopsReading
<1>10. ASSUME PemNotLoaded PROVE ValuesOK'
  <2>1. "E" \in Bytes
    BY DEF Bytes
  <2>2. Put(PemCertificate, "E") = Append(PemCertificate, "E")
    BY <2>1, PutType
  <2>3. /\ PemCertificate' = Append(PemCertificate, "E") /\ received' = Append(received, "E")
        /\ Len(PemCertificate) < MAX_PEM_CERT_LENGTH
    BY <1>10, <2>2 DEF PemNotLoaded, EndMarker, KeepsReading
  <2>4. /\ PemCertificate' \in Seq(Bytes) /\ received' \in Seq(Bytes)
        /\ Len(PemCertificate') <= MAX_PEM_CERT_LENGTH
    BY <2>1, <2>3, CertsAssumption
  <2>5. QED
    BY <1>10, <2>4 DEF PemNotLoaded, trust
<1>11. ASSUME PemIllegal PROVE ValuesOK'
  BY <1>11, <1>e DEF PemIllegal, StopsReading, trust
<1>12. ASSUME LinkCloses PROVE ValuesOK'
  BY <1>12 DEF LinkCloses, trust, loader
<1>13. ASSUME Reset PROVE ValuesOK'
  BY <1>13, <1>e, FirstListType DEF Reset
<1>14. ASSUME UNCHANGED vars PROVE ValuesOK'
  BY <1>14 DEF vars, trust, loader
<1> HIDE DEF ValuesOK
<1>15. QED
  BY <1>1, <1>2, <1>3, <1>4, <1>5, <1>6, <1>7, <1>8, <1>9, <1>10, <1>11, <1>12, <1>13, <1>14,
     CertSteps

LEMMA CertTypeStep == TypeOK /\ [Next]_vars => TypeOK'
<1> SUFFICES ASSUME TypeOK, [Next]_vars PROVE TypeOK'
  OBVIOUS
<1>1. ValuesOK' /\ gsCertLoading' \in BOOLEAN
  BY TypeSplit, ValuesStep, LoadingStep
<1>2. QED
  BY <1>1 DEF TypeOK, ValuesOK

\* The values have their types, and a certificate fits in its buffer.
THEOREM CertsTypeCorrect == Spec => []TypeOK
BY CertTypeInit, CertTypeStep, PTL DEF Spec

-----------------------------------------------------------------------------
(***************************************************************************)
(* The lists, the link and the maximum                                     *)
(***************************************************************************)

\* What a step does to the lists.
Kept == UNCHANGED trust

Deleted ==
  \E n \in 1..Len(Loaded) :
    /\ CAcert < MaxLists
    /\ lists' = [lists EXCEPT ![CAcert + 1] = RemoveAt(Loaded, n)]
    /\ CAcert' = CAcert + 1
    /\ UNCHANGED link

Added ==
  \E cert \in Certs :
    /\ cert \notin ToSet(Loaded)
    /\ lists' = [lists EXCEPT ![CAcert] = Append(Loaded, cert)]
    /\ UNCHANGED <<CAcert, link>>

Opened == CipStartSsl /\ UNCHANGED trust

LEMMA ListSteps ==
  ASSUME TypeOK, [Next]_vars
  PROVE  \/ Kept /\ (UNCHANGED link \/ link' = None)
         \/ Deleted \/ Added \/ Opened \/ Reset
<1> DEFINE Goal == \/ Kept /\ (UNCHANGED link \/ link' = None)
                   \/ Deleted \/ Added \/ Opened \/ Reset
<1>1. \A x : \/ CipSslAuth(x) \/ CipSslFp(x) \/ CipSslSize(x) \/ CipSslCertMax(x) \/ PemByte(x)
             => Kept /\ UNCHANGED link
  BY DEF CipSslAuth, CipSslFp, CipSslSize, CipSslCertMax, PemByte, Kept, trust
<1>2. CipSslCert \/ PemNotLoaded \/ PemIllegal \/ UNCHANGED vars => Kept /\ UNCHANGED link
  BY DEF CipSslCert, PemNotLoaded, PemIllegal, vars, Kept, trust
<1>3. LinkCloses => Kept /\ link' = None
  BY DEF LinkCloses, Kept
<1>4. CipStartSsl => Opened
  BY DEF CipStartSsl, Opened
<1>5. ASSUME NEW n \in 1..Len(Loaded), CipSslCertDelete(n) PROVE Deleted
  BY <1>5 DEF CipSslCertDelete, Replace, Deleted
<1>6. ASSUME PemLoaded PROVE Added \/ (Kept /\ UNCHANGED link)
  <2>1. UNCHANGED <<CAcert, link>> /\ \E cert \in Certs : Load(cert)
    BY <1>6 DEF PemLoaded
  <2>2. PICK cert \in Certs : Load(cert)
    BY <2>1
  <2>3. CASE cert \in ToSet(Loaded)
    BY <2>1, <2>2, <2>3 DEF Load, IsDuplicate, Kept, trust
  <2>4. CASE cert \notin ToSet(Loaded)
    <3>1. lists' = [lists EXCEPT ![CAcert] = Append(Loaded, cert)]
      BY <2>2, <2>4 DEF Load, IsDuplicate, Loaded
    <3>2. QED
      BY <2>1, <2>4, <3>1 DEF Added
  <2>5. QED
    BY <2>3, <2>4
<1> HIDE DEF Goal
<1>7. Goal
  <2>1. Kept /\ (UNCHANGED link \/ link' = None) => Goal
    BY DEF Goal
  <2>2. Deleted \/ Added \/ Opened \/ Reset => Goal
    BY DEF Goal
  <2>3. QED
    BY <1>1, <1>2, <1>3, <1>4, <1>5, <1>6, <2>1, <2>2, CertSteps
<1>8. QED
  BY <1>7 DEF Goal

\* The list of an open link is none that is still to be made.
TrustInv ==
  /\ NoDuplicates
  /\ ServerChecked
  /\ link # None => (link.auth = 2 => link.check \in 1..CAcert)

LEMMA TrustInit == Init => TrustInv
<1> SUFFICES ASSUME Init PROVE TrustInv
  OBVIOUS
<1>1. \A id \in Ids : IsInjective(FirstList[id])
  BY DEF FirstList, IsInjective
<1>2. QED
  BY <1>1 DEF Init, TrustInv, NoDuplicates, ServerChecked

LEMMA TrustStep == TypeOK /\ TrustInv /\ [Next]_vars => TrustInv'
<1> SUFFICES ASSUME TypeOK, TrustInv, [Next]_vars PROVE TrustInv'
  OBVIOUS
<1> DEFINE LinkInv == link # None =>
             /\ link.auth = 1 => link.check \in Fingerprints
             /\ link.auth = 2 => /\ link.check \in Ids /\ lists[link.check] # <<>>
                                /\ link.check \in 1..CAcert
<1>t. /\ lists \in [Ids -> Seq(Certs)] /\ CAcert \in Ids /\ CAcert \in Nat /\ Loaded \in Seq(Certs)
      /\ fingerprint \in Fingerprints \cup {None}
  BY DEF TypeOK, Loaded, Ids
<1>l. LinkInv /\ NoDuplicates
  BY DEF TrustInv, ServerChecked
<1>i. IsInjective(Loaded)
  BY <1>l, <1>t DEF NoDuplicates, Loaded
<1>1. CASE Kept /\ (UNCHANGED link \/ link' = None)
  BY <1>1, <1>l DEF Kept, trust, TrustInv, NoDuplicates, ServerChecked
<1>2. CASE Deleted
  <2>1. PICK n \in 1..Len(Loaded) :
          /\ CAcert < MaxLists
          /\ lists' = [lists EXCEPT ![CAcert + 1] = RemoveAt(Loaded, n)]
          /\ CAcert' = CAcert + 1 /\ link' = link
    BY <1>2 DEF Deleted
  <2>2. IsInjective(RemoveAt(Loaded, n))
    BY <1>t, <1>i, RemovedInjective
  <2>3. \A id \in Ids : lists'[id] = IF id = CAcert + 1 THEN RemoveAt(Loaded, n) ELSE lists[id]
    BY <1>t, <2>1
  <2>4. NoDuplicates'
    BY <1>l, <2>2, <2>3 DEF NoDuplicates
  <2>5. \A id \in 1..CAcert : id # CAcert + 1 /\ id \in 1..(CAcert + 1)
    BY <1>t
  <2>6. LinkInv'
    BY <1>l, <2>1, <2>3, <2>5
  <2>7. QED
    BY <2>4, <2>6 DEF TrustInv, ServerChecked
<1>3. CASE Added
  <2>1. PICK cert \in Certs :
          /\ cert \notin ToSet(Loaded)
          /\ lists' = [lists EXCEPT ![CAcert] = Append(Loaded, cert)]
          /\ CAcert' = CAcert /\ link' = link
    BY <1>3 DEF Added
  <2>2. IsInjective(Append(Loaded, cert))
    BY <1>t, <1>i, <2>1, AppendedInjective
  <2>3. \A id \in Ids : lists'[id] = IF id = CAcert THEN Append(Loaded, cert) ELSE lists[id]
    BY <1>t, <2>1
  <2>4. NoDuplicates'
    BY <1>l, <2>2, <2>3 DEF NoDuplicates
  <2>5. Append(Loaded, cert) # <<>>
    BY <1>t, AppendProperties
  <2>6. LinkInv'
    BY <1>l, <2>1, <2>3, <2>5
  <2>7. QED
    BY <2>4, <2>6 DEF TrustInv, ServerChecked
<1>4. CASE Opened
  <2>1. PICK check \in Checkers :
          ChecksWith(check) /\ link' = [auth |-> gsCipSslAuth, check |-> check]
    BY <1>4 DEF Opened, CipStartSsl
  <2>2. UNCHANGED <<lists, CAcert>>
    BY <1>4 DEF Opened, trust
  <2>3. NoDuplicates'
    BY <1>l, <2>2 DEF NoDuplicates
  <2>4. link'.auth = gsCipSslAuth /\ link'.check = check
    BY <2>1
  <2>5. /\ gsCipSslAuth = 1 => check \in Fingerprints
        /\ gsCipSslAuth = 2 => check = CAcert /\ lists[CAcert] # <<>>
    BY <1>t, <2>1 DEF ChecksWith, Loaded
  <2>6. CAcert \in 1..CAcert
    BY <1>t DEF Ids
  <2>7. LinkInv'
    BY <1>t, <2>2, <2>4, <2>5, <2>6
  <2>8. QED
    BY <2>3, <2>7 DEF TrustInv, ServerChecked
<1>5. CASE Reset
  <2>1. lists' = FirstList /\ link' = None
    BY <1>5 DEF Reset
  <2>2. \A id \in Ids : IsInjective(FirstList[id])
    BY DEF FirstList, IsInjective
  <2>3. QED
    BY <2>1, <2>2 DEF TrustInv, NoDuplicates, ServerChecked
<1>6. QED
  BY <1>1, <1>2, <1>3, <1>4, <1>5, ListSteps

LEMMA TrustCorrect == Spec => []TrustInv
BY TrustInit, TrustStep, CertsTypeCorrect, PTL DEF Spec

\* Deleting and loading in any order never puts a certificate in a list twice.
THEOREM NoDuplicatesCorrect == Spec => []NoDuplicates
<1>1. TrustInv => NoDuplicates
  BY DEF TrustInv
<1>2. QED
  BY <1>1, TrustCorrect, PTL

\* CIPSTART never falls back to a server nobody checks, and what an open link
\* checks with is never emptied.
THEOREM ServerCheckedCorrect == Spec => []ServerChecked
<1>1. TrustInv => ServerChecked
  BY DEF TrustInv
<1>2. QED
  BY <1>1, TrustCorrect, PTL

\* The list an open link points to loses no certificate.
THEOREM AnchorsStayCorrect == Spec => AnchorsStay
<1> DEFINE Stays == link # None /\ link' # None =>
                      (link.auth = 2 => IsPrefix(lists[link.check], lists'[link.check]))
<1>1. ASSUME TypeOK, TrustInv, [Next]_vars PROVE Stays
  <2> SUFFICES ASSUME link # None, link' # None, link.auth = 2
               PROVE  IsPrefix(lists[link.check], lists'[link.check])
    OBVIOUS
  <2>t. /\ lists \in [Ids -> Seq(Certs)] /\ CAcert \in Ids /\ CAcert \in Nat
        /\ link.check \in Ids /\ link.check \in 1..CAcert
    BY <1>1 DEF TypeOK, TrustInv, ServerChecked, Ids
  <2>p. \A s \in Seq(Certs) : IsPrefix(s, s)
    BY DEF IsPrefix
  <2>1. CASE lists'[link.check] = lists[link.check]
    BY <2>1, <2>p, <2>t
  <2>2. ASSUME NEW cert \in Certs, lists'[link.check] = Append(lists[link.check], cert)
        PROVE  IsPrefix(lists[link.check], lists'[link.check])
    <3> DEFINE s == lists[link.check]
    <3>1. s \in Seq(Certs)
      BY <2>t
    <3> HIDE DEF s
    <3>2. Len(s) <= Len(Append(s, cert)) /\ SubSeq(s, 1, Len(s)) = s /\ SubSeq(Append(s, cert), 1, Len(s)) = s
      BY <3>1
    <3>3. QED
      BY <2>2, <3>2 DEF IsPrefix, s
  <2>3. CASE Deleted
    BY <2>1, <2>3, <2>t DEF Deleted
  <2>4. CASE Added
    BY <2>1, <2>2, <2>4, <2>t DEF Added, Loaded
  <2>5. CASE Kept
    BY <2>1, <2>5 DEF Kept, trust
  <2>6. CASE Opened \/ Reset
    BY <2>6 DEF Opened, CipStartSsl, Reset
  <2>7. QED
    BY <1>1, <2>3, <2>4, <2>5, <2>6, ListSteps
<1>2. QED
  BY <1>1, CertsTypeCorrect, TrustCorrect, PTL DEF Spec, AnchorsStay

\* The maximum cannot be lowered, nor the list grow, while a certificate is read.
RoomInv == gsCertLoading => RoomForOne

LEMMA RoomStep == RoomInv /\ [Next]_vars => RoomInv'
<1> SUFFICES ASSUME RoomInv, [Next]_vars PROVE RoomInv'
  OBVIOUS
<1>1. UNCHANGED <<trust, maximumCertificates, gsCertLoading>> => RoomInv'
  BY DEF RoomInv, RoomForOne, Loaded, trust
<1>2. ~gsCertLoading' => RoomInv'
  BY DEF RoomInv
<1>3. StopsReading => ~gsCertLoading'
  BY DEF StopsReading
<1>4. Reset => ~gsCertLoading'
  BY DEF Reset
<1>5. \A x : \/ CipSslAuth(x) \/ CipSslFp(x) \/ CipSslSize(x) \/ CipSslCertMax(x) \/ CipSslCertDelete(x)
             => ~gsCertLoading /\ UNCHANGED loader
  BY DEF CipSslAuth, CipSslFp, CipSslSize, CipSslCertMax, CipSslCertDelete
<1>6. ~gsCertLoading /\ UNCHANGED loader => ~gsCertLoading'
  BY DEF loader
<1>7. CipSslCert => RoomInv'
  <2>1. CipSslCert => RoomForOne /\ UNCHANGED <<trust, maximumCertificates>>
    BY DEF CipSslCert
  <2>2. RoomForOne /\ UNCHANGED <<trust, maximumCertificates>> => RoomForOne'
    BY DEF RoomForOne, Loaded, trust
  <2>3. QED
    BY <2>1, <2>2 DEF RoomInv
<1>8. \A b : PemByte(b) => \/ StopsReading
                            \/ UNCHANGED <<trust, maximumCertificates, gsCertLoading>>
  BY DEF PemByte, KeepsReading
<1>9. PemNotLoaded \/ LinkCloses \/ CipStartSsl \/ UNCHANGED vars
        => UNCHANGED <<trust, maximumCertificates, gsCertLoading>>
  BY DEF PemNotLoaded, KeepsReading, LinkCloses, CipStartSsl, vars, loader
<1>10. PemLoaded \/ PemIllegal => StopsReading
  BY DEF PemLoaded, PemIllegal
<1>11. QED
  BY <1>1, <1>2, <1>3, <1>4, <1>5, <1>6, <1>7, <1>8, <1>9, <1>10, CertSteps

\* Loading adds to the list in use, up to the maximum in force.
THEOREM WithinMaximumCorrect == Spec => WithinMaximum
<1> DEFINE Within ==
      Pem /\ lists' # lists =>
        /\ lists' = [lists EXCEPT ![CAcert] = lists'[CAcert]]
        /\ Len(lists'[CAcert]) <= maximumCertificates
<1>1. Init => RoomInv
  BY DEF Init, RoomInv
<1>2. ASSUME TypeOK, RoomInv, [Next]_vars PROVE Within
  <2> SUFFICES ASSUME Pem, lists' # lists
               PROVE  /\ lists' = [lists EXCEPT ![CAcert] = lists'[CAcert]]
                      /\ Len(lists'[CAcert]) <= maximumCertificates
    OBVIOUS
  <2>1. PemLoaded
    BY DEF Pem, PemByte, PemNotLoaded, PemIllegal, trust
  <2>2. PICK cert \in Certs : Load(cert)
    BY <2>1 DEF PemLoaded
  <2>3. lists' = [lists EXCEPT ![CAcert] = Append(Loaded, cert)]
    BY <2>2 DEF Load, Loaded
  <2>4. lists \in [Ids -> Seq(Certs)] /\ CAcert \in Ids /\ Loaded \in Seq(Certs)
        /\ maximumCertificates \in Nat
    BY <1>2, CertsAssumption DEF TypeOK, Loaded
  <2>5. lists'[CAcert] = Append(Loaded, cert)
    BY <2>3, <2>4
  <2>6. gsCertLoading
    BY <2>1 DEF PemLoaded, EndMarker, Reading
  <2>7. Len(Loaded) < maximumCertificates
    BY <1>2, <2>6 DEF RoomInv, RoomForOne
  <2>8. Len(Append(Loaded, cert)) <= maximumCertificates
    BY <2>4, <2>7, AppendProperties
  <2>9. QED
    BY <2>3, <2>5, <2>8
<1>3. QED
  BY <1>1, <1>2, RoomStep, CertsTypeCorrect, PTL DEF Spec, WithinMaximum

-----------------------------------------------------------------------------
(***************************************************************************)
(* The text.  A pick grows at its end with the places, and loses its last  *)
(* element with the last place.                                            *)
(***************************************************************************)

\* The rank of a place in a set of places lies in the pick.
LEMMA Ranks ==
  ASSUME NEW m \in Nat, NEW K \in SUBSET (1..m)
  PROVE  /\ IsFiniteSet(K) /\ Cardinality(K) \in Nat
         /\ \A i \in K : Cardinality({j \in K : j <= i}) \in 1..Cardinality(K)
<1>1. IsFiniteSet(1..m)
  BY FS_Interval
<1>2. IsFiniteSet(K) /\ Cardinality(K) \in Nat
  BY <1>1, FS_Subset, FS_CardinalityType
<1>3. ASSUME NEW i \in K PROVE Cardinality({j \in K : j <= i}) \in 1..Cardinality(K)
  <2> DEFINE R == {j \in K : j <= i}
  <2>1. R \subseteq K /\ i \in R
    OBVIOUS
  <2> HIDE DEF R
  <2>2. IsFiniteSet(R) /\ Cardinality(R) \in Nat /\ Cardinality(R) <= Cardinality(K)
    BY <1>2, <2>1, FS_Subset, FS_CardinalityType
  <2>3. Cardinality(R) # 0
    BY <2>1, <2>2, FS_EmptySet
  <2>4. Cardinality(R) \in 1..Cardinality(K)
    BY <1>2, <2>2, <2>3
  <2>5. QED
    BY <2>4 DEF R
<1>4. QED
  BY <1>2, <1>3

LEMMA PickSame ==
  ASSUME NEW m \in Nat, NEW K \in SUBSET (1..m), NEW t, NEW v, NEW w,
         \A i \in 1..m : w[i] = v[i], IsPick(t, v, K)
  PROVE  IsPick(t, w, K)
BY DEF IsPick

LEMMA PickAppend ==
  ASSUME NEW m \in Nat, NEW K \in SUBSET (1..m), NEW S, NEW t \in Seq(S), NEW e \in S,
         NEW v, NEW w, \A i \in 1..m : w[i] = v[i], w[m + 1] = e, IsPick(t, v, K)
  PROVE  IsPick(Append(t, e), w, K \cup {m + 1})
<1> DEFINE L == K \cup {m + 1}
           u == Append(t, e)
<1>1. /\ IsFiniteSet(K) /\ Cardinality(K) \in Nat
      /\ \A i \in K : Cardinality({j \in K : j <= i}) \in 1..Cardinality(K)
  BY Ranks
<1>b. \A i \in K : i \in Nat /\ i <= m
  OBVIOUS
<1>2. Cardinality(L) = Cardinality(K) + 1
  <2>1. m + 1 \notin K
    BY <1>b
  <2>2. QED
    BY <1>1, <2>1, FS_AddElement
<1>3. Len(t) = Cardinality(K) /\ \A i \in K : t[Cardinality({j \in K : j <= i})] = v[i]
  BY DEF IsPick
<1>4. Len(u) = Len(t) + 1 /\ u[Len(t) + 1] = e /\ \A i \in 1..Len(t) : u[i] = t[i]
  OBVIOUS
<1>5. ASSUME NEW i \in K PROVE u[Cardinality({j \in L : j <= i})] = w[i]
  <2>1. {j \in L : j <= i} = {j \in K : j <= i}
    OBVIOUS
  <2> HIDE DEF L, u
  <2>2. QED
    BY <1>1, <1>3, <1>4, <2>1
<1>6. u[Cardinality({j \in L : j <= m + 1})] = w[m + 1]
  <2>1. {j \in L : j <= m + 1} = L
    <3>1. \A i \in L : i <= m + 1
      BY <1>b
    <3> HIDE DEF L
    <3>2. QED
      BY <3>1
  <2> HIDE DEF L, u
  <2>2. QED
    BY <1>2, <1>3, <1>4, <2>1
<1>7. \A i \in L : u[Cardinality({j \in L : j <= i})] = w[i]
  BY <1>5, <1>6
<1> HIDE DEF L, u
<1>8. IsPick(u, w, L)
  BY <1>2, <1>3, <1>4, <1>7 DEF IsPick
<1>9. QED
  BY <1>8 DEF L, u

LEMMA PickFront ==
  ASSUME NEW m \in Nat \ {0}, NEW K \in SUBSET (1..m), m \in K, NEW S, NEW t \in Seq(S),
         NEW v, NEW w, \A i \in 1..m : w[i] = v[i], IsPick(t, v, K)
  PROVE  IsPick(Front(t), w, K \ {m})
<1> DEFINE L == K \ {m}
           u == Front(t)
<1>1. /\ IsFiniteSet(K) /\ Cardinality(K) \in Nat
      /\ \A i \in K : Cardinality({j \in K : j <= i}) \in 1..Cardinality(K)
  BY Ranks
<1>2. Cardinality(L) = Cardinality(K) - 1
  BY <1>1, FS_RemoveElement
<1>3. /\ Cardinality(L) \in Nat
      /\ \A i \in L : Cardinality({j \in L : j <= i}) \in 1..Cardinality(L)
  <2>1. L \in SUBSET (1..m)
    OBVIOUS
  <2> HIDE DEF L
  <2>2. QED
    BY <2>1, Ranks
<1>4. Len(t) = Cardinality(K) /\ \A i \in K : t[Cardinality({j \in K : j <= i})] = v[i]
  BY DEF IsPick
<1>5. Len(t) \in Nat /\ Len(t) # 0
  BY <1>2, <1>3, <1>4
<1>6. Len(u) = Len(t) - 1 /\ \A i \in 1..(Len(t) - 1) : u[i] = t[i]
  <2> DEFINE n == Len(t) - 1
  <2>1. n \in Int /\ n >= 0 /\ \A i \in 1..n : t[i] \in S
    BY <1>5
  <2> HIDE DEF n
  <2>2. /\ Len(SubSeq(t, 1, n)) = IF 1 <= n THEN n - 1 + 1 ELSE 0
        /\ \A i \in 1..(n - 1 + 1) : SubSeq(t, 1, n)[i] = t[1 + i - 1]
    BY <2>1, SubSeqProperties
  <2>3. \A i \in 1..n : SubSeq(t, 1, n)[i] = t[i]
    BY <2>1, <2>2
  <2>4. Len(SubSeq(t, 1, n)) = n
    BY <2>1, <2>2
  <2>5. QED
    BY <2>3, <2>4 DEF n, Front
<1>7. ASSUME NEW i \in L PROVE u[Cardinality({j \in L : j <= i})] = w[i]
  <2>1. {j \in L : j <= i} = {j \in K : j <= i} /\ i \in K /\ i \in 1..m
    OBVIOUS
  <2> HIDE DEF L, u
  <2>2. QED
    BY <1>2, <1>3, <1>4, <1>6, <2>1
<1> HIDE DEF L, u
<1>8. IsPick(u, w, L)
  BY <1>2, <1>4, <1>6, <1>7 DEF IsPick
<1>9. QED
  BY <1>8 DEF L, u

-----------------------------------------------------------------------------
\* What the byte b makes of the places of a text.
LEMMA LastEscape ==
  ASSUME NEW s \in Seq(Bytes), NEW b \in Bytes
  PROVE  /\ \A i \in 1..Len(s) : IsEscape(Append(s, b), i)
                                  <=> IsEscape(s, i) \/ (i = Len(s) /\ EndsEscape(s, b))
         /\ ~IsEscape(Append(s, b), Len(s) + 1)
         /\ \A i \in {0, Len(s)} : ~IsEscape(s, i)
         /\ EndsEscape(s, b) => Len(s) # 0 /\ s[Len(s)] = "BS"
<1> DEFINE t == Append(s, b)
<1>1. Len(t) = Len(s) + 1 /\ t[Len(s) + 1] = b /\ \A i \in 1..Len(s) : t[i] = s[i]
  OBVIOUS
<1>2. s # <<>> <=> Len(s) # 0
  OBVIOUS
<1> HIDE DEF t
<1>3. ASSUME NEW i \in 1..Len(s)
      PROVE  IsEscape(t, i) <=> IsEscape(s, i) \/ (i = Len(s) /\ EndsEscape(s, b))
  <2>1. CASE i = Len(s)
    BY <1>1, <1>2, <2>1 DEF IsEscape, EndsEscape, Last
  <2>2. CASE i # Len(s)
    <3>1. i + 1 \in 1..Len(s) /\ i \in 1..(Len(s) - 1) /\ i \in 1..(Len(t) - 1)
      BY <1>1, <2>2
    <3>2. QED
      BY <1>1, <2>2, <3>1 DEF IsEscape
  <2>3. QED
    BY <2>1, <2>2
<1>4. ~IsEscape(t, Len(s) + 1) /\ \A i \in {0, Len(s)} : ~IsEscape(s, i)
  BY <1>1 DEF IsEscape
<1>5. EndsEscape(s, b) => Len(s) # 0 /\ s[Len(s)] = "BS"
  BY <1>2 DEF EndsEscape, Last
<1>6. QED
  BY <1>3, <1>4, <1>5 DEF t

LEMMA Newlines ==
  ASSUME NEW s \in Seq(Bytes), NEW b \in Bytes
  PROVE  /\ \A i \in 1..Len(s) : IsNewline(Append(s, b), i) <=> IsNewline(s, i)
         /\ IsNewline(Append(s, b), Len(s) + 1) <=> b \in {"CR", "NL"} \/ EndsEscape(s, b)
         /\ \A i \in 1..Len(s) : Before(Append(s, b), i) = Before(s, i) /\ Before(s, i) \in 0..Len(s)
         /\ Before(Append(s, b), Len(s) + 1) = IF EndsEscape(s, b) THEN Len(s) - 1 ELSE Len(s)
         /\ EndsEscape(s, b) => ~IsNewline(s, Len(s))
<1> DEFINE t == Append(s, b)
<1>1. Len(t) = Len(s) + 1 /\ t[Len(s) + 1] = b /\ \A i \in 1..Len(s) : t[i] = s[i]
  OBVIOUS
<1>2. ASSUME NEW i \in 1..Len(s) PROVE IsEscape(t, i - 1) <=> IsEscape(s, i - 1)
  <2>1. CASE i = 1
    BY <2>1 DEF IsEscape
  <2>2. CASE i # 1
    <3>1. i - 1 \in 1..Len(s) /\ i - 1 # Len(s)
      BY <2>2
    <3> HIDE DEF t
    <3>2. QED
      BY <3>1, LastEscape DEF t
  <2>3. QED
    BY <2>1, <2>2
<1>3. IsEscape(t, Len(s)) <=> EndsEscape(s, b)
  <2>1. CASE Len(s) = 0
    <3>1. ~EndsEscape(s, b)
      BY <2>1, LastEscape
    <3>2. ~IsEscape(t, 0)
      BY DEF IsEscape
    <3>3. QED
      BY <2>1, <3>1, <3>2
  <2>2. CASE Len(s) # 0
    <3>1. Len(s) \in 1..Len(s)
      BY <2>2
    <3>2. QED
      BY <3>1, LastEscape DEF t
  <2>3. QED
    BY <2>1, <2>2
<1> HIDE DEF t
<1>4. \A i \in 1..Len(s) : IsNewline(t, i) <=> IsNewline(s, i)
  BY <1>1, <1>2 DEF IsNewline
<1>5. Len(s) + 1 - 1 = Len(s) /\ Len(s) + 1 - 2 = Len(s) - 1
  OBVIOUS
<1>6. IsNewline(t, Len(s) + 1) <=> b \in {"CR", "NL"} \/ EndsEscape(s, b)
  BY <1>1, <1>3, <1>5 DEF IsNewline
<1>7. ASSUME NEW i \in 1..Len(s) PROVE Before(t, i) = Before(s, i) /\ Before(s, i) \in 0..Len(s)
  <2>1. IsEscape(s, i - 1) => i - 1 >= 1
    BY DEF IsEscape
  <2>2. QED
    BY <1>2, <2>1 DEF Before
<1>8. Before(t, Len(s) + 1) = IF EndsEscape(s, b) THEN Len(s) - 1 ELSE Len(s)
  BY <1>3, <1>5 DEF Before
<1>9. EndsEscape(s, b) => ~IsNewline(s, Len(s))
  <2> SUFFICES ASSUME EndsEscape(s, b) PROVE ~IsNewline(s, Len(s))
    OBVIOUS
  <2>1. Len(s) # 0 /\ s[Len(s)] = "BS"
    BY LastEscape
  <2>2. ~IsEscape(s, Len(s) - 1)
    BY <2>1 DEF IsEscape
  <2>3. QED
    BY <2>1, <2>2 DEF IsNewline
<1>10. QED
  BY <1>4, <1>6, <1>7, <1>8, <1>9 DEF t

\* A newline at place i + 1 would not be kept.
AtStart(s, i) == i = 0 \/ IsNewline(s, i)

\* The places that are kept once b has come.
NowKept(s, b) ==
  (IF EndsEscape(s, b) THEN KeptPlaces(s) \ {Len(s)} ELSE KeptPlaces(s))
  \cup {i \in {Len(s) + 1} :
          /\ EndsEscape(s, b) => ~AtStart(s, Len(s) - 1)
          /\ b \in {"CR", "NL"} => ~AtStart(s, Len(s))}

LEMMA Keeps ==
  ASSUME NEW s \in Seq(Bytes), NEW b \in Bytes
  PROVE  /\ KeptPlaces(Append(s, b)) = NowKept(s, b)
         /\ EndsEscape(s, b) => Len(s) \in KeptPlaces(s)
         /\ KeptPlaces(s) \in SUBSET (1..Len(s))
<1> DEFINE t == Append(s, b)
<1>1. Len(t) = Len(s) + 1
  OBVIOUS
<1> HIDE DEF t
<1>2. ASSUME NEW i \in 1..Len(s)
      PROVE  i \in KeptPlaces(t) <=> i \in KeptPlaces(s) /\ ~(i = Len(s) /\ EndsEscape(s, b))
  <2>1. i \in 1..Len(t)
    BY <1>1
  <2>2. IsNewline(t, i) <=> IsNewline(s, i)
    BY Newlines DEF t
  <2>3. IsEscape(t, i) <=> IsEscape(s, i) \/ (i = Len(s) /\ EndsEscape(s, b))
    BY LastEscape DEF t
  <2>4. Before(t, i) = Before(s, i) /\ Before(s, i) \in 0..Len(s)
    BY Newlines DEF t
  <2>5. Before(s, i) # 0 => (IsNewline(t, Before(s, i)) <=> IsNewline(s, Before(s, i)))
    <3>1. Before(s, i) # 0 => Before(s, i) \in 1..Len(s)
      BY <2>4
    <3>2. QED
      BY <3>1, Newlines DEF t
  <2>6. QED
    BY <2>1, <2>2, <2>3, <2>4, <2>5 DEF KeptPlaces
<1>3. Len(s) + 1 \in KeptPlaces(t)
        <=> /\ EndsEscape(s, b) => ~AtStart(s, Len(s) - 1)
            /\ b \in {"CR", "NL"} => ~AtStart(s, Len(s))
  <2> DEFINE m == Len(s)
             p == Before(t, m + 1)
  <2>1. m + 1 \in 1..Len(t) /\ m \in Nat
    BY <1>1
  <2>2. ~IsEscape(t, m + 1)
    BY LastEscape DEF t
  <2>3. IsNewline(t, m + 1) <=> b \in {"CR", "NL"} \/ EndsEscape(s, b)
    BY Newlines DEF t
  <2>4. p = IF EndsEscape(s, b) THEN m - 1 ELSE m
    BY Newlines DEF t
  <2>5. EndsEscape(s, b) => b = "n" /\ m # 0
    BY LastEscape DEF EndsEscape
  <2>6. p \in 0..m
    BY <2>1, <2>4, <2>5
  <2>7. p # 0 => (IsNewline(t, p) <=> IsNewline(s, p))
    <3>1. p # 0 => p \in 1..m
      BY <2>6
    <3> HIDE DEF p
    <3>2. QED
      BY <3>1, Newlines DEF t
  <2>8. m + 1 \in KeptPlaces(t) <=> (IsNewline(t, m + 1) => ~AtStart(s, p))
    <3> HIDE DEF p, m
    <3>1. p # 0 /\ ~IsNewline(t, p) <=> ~AtStart(s, p)
      BY <2>7 DEF AtStart
    <3>2. QED
      BY <2>1, <2>2, <3>1 DEF KeptPlaces, p
  <2>9. QED
    BY <2>3, <2>4, <2>5, <2>8
<1>4. KeptPlaces(t) \subseteq 1..(Len(s) + 1) /\ KeptPlaces(s) \in SUBSET (1..Len(s))
  BY <1>1 DEF KeptPlaces
<1>5. KeptPlaces(t) = NowKept(s, b)
  <2>1. \A i : i \in 1..(Len(s) + 1) => i \in 1..Len(s) \/ i = Len(s) + 1
    OBVIOUS
  <2>2. Len(s) + 1 \notin KeptPlaces(s) /\ Len(s) + 1 # Len(s)
    BY <1>4
  <2>3. QED
    BY <1>2, <1>3, <1>4, <2>1, <2>2 DEF NowKept
<1>6. EndsEscape(s, b) => Len(s) \in KeptPlaces(s)
  <2>1. EndsEscape(s, b) => Len(s) \in 1..Len(s) /\ ~IsNewline(s, Len(s)) /\ ~IsEscape(s, Len(s))
    BY LastEscape, Newlines
  <2>2. QED
    BY <2>1 DEF KeptPlaces
<1>7. QED
  BY <1>4, <1>5, <1>6 DEF t

-----------------------------------------------------------------------------
LineStart(text) == text = <<>> \/ Last(text) = "NL"

EndsInBackslash(text) == text # <<>> /\ Last(text) = "BS"

\* The text ends as what was received does, also without a backslash.
EndsAlike(text, s) ==
  /\ LineStart(text) <=> AtStart(s, Len(s))
  /\ EndsInBackslash(text) <=> EndsInBackslash(s)
  /\ EndsInBackslash(s) => (LineStart(Front(text)) <=> AtStart(s, Len(s) - 1))

LEMMA LastFacts ==
  ASSUME NEW s \in Seq(Bytes), NEW b \in Bytes
  PROVE  /\ Append(s, b) # <<>> /\ Last(Append(s, b)) = b /\ Front(Append(s, b)) = s
         /\ s # <<>> => Front(s) \in Seq(Bytes)
<1>1. Append(s, b) # <<>> /\ Last(Append(s, b)) = b
  BY DEF Last
<1>2. Front(Append(s, b)) = s
  <2>1. SubSeq(Append(s, b), 1, Len(s)) = s
    OBVIOUS
  <2>2. Len(Append(s, b)) - 1 = Len(s)
    OBVIOUS
  <2>3. QED
    BY <2>1, <2>2 DEF Front
<1>3. s # <<>> => Front(s) \in Seq(Bytes)
  BY DEF Front
<1>4. QED
  BY <1>1, <1>2, <1>3

\* A newline always leaves a text at the start of a line.
LEMMA NewlineStarts ==
  ASSUME NEW s \in Seq(Bytes)
  PROVE  /\ PutNewline(s) = IF LineStart(s) THEN s ELSE Append(s, "NL")
         /\ LineStart(PutNewline(s)) /\ ~EndsInBackslash(PutNewline(s))
<1>1. "NL" \in Bytes
  BY DEF Bytes, Escapes
<1>2. Append(s, "NL") # <<>> /\ Last(Append(s, "NL")) = "NL"
  BY <1>1, LastFacts
<1>3. PutNewline(s) = IF LineStart(s) THEN s ELSE Append(s, "NL")
  BY DEF PutNewline, LineStart
<1>4. LineStart(PutNewline(s))
  BY <1>2, <1>3 DEF LineStart
<1>5. QED
  BY <1>3, <1>4 DEF LineStart, EndsInBackslash

LEMMA StillEndsAlike ==
  ASSUME NEW text \in Seq(Bytes), NEW s \in Seq(Bytes), NEW b \in Bytes, EndsAlike(text, s)
  PROVE  /\ EndsAlike(Put(text, b), Append(s, b))
         /\ EndsEscape(text, b) <=> EndsEscape(s, b)
<1> DEFINE t == Append(s, b)
<1>1. EndsEscape(text, b) <=> EndsEscape(s, b)
  BY DEF EndsAlike, EndsInBackslash, EndsEscape
<1>2. EndsInBackslash(t) <=> b = "BS"
  BY LastFacts DEF EndsInBackslash
<1>3. Len(t) = Len(s) + 1 /\ Len(s) \in Nat
  OBVIOUS
<1>4. AtStart(t, Len(t)) <=> b \in {"CR", "NL"} \/ EndsEscape(s, b)
  <2>1. IsNewline(t, Len(s) + 1) <=> b \in {"CR", "NL"} \/ EndsEscape(s, b)
    BY Newlines
  <2>2. Len(s) + 1 # 0
    BY <1>3
  <2> HIDE DEF t
  <2>3. QED
    BY <1>3, <2>1, <2>2 DEF AtStart
<1>5. CASE EndsEscape(s, b)
  <2>1. text # <<>> /\ b # "BS" /\ Put(text, b) = PutNewline(Front(text))
    BY <1>1, <1>5 DEF Put, EndsEscape
  <2>2. LineStart(Put(text, b)) /\ ~EndsInBackslash(Put(text, b))
    BY <2>1, LastFacts, NewlineStarts
  <2> HIDE DEF t
  <2>3. QED
    BY <1>1, <1>2, <1>4, <1>5, <2>1, <2>2 DEF EndsAlike, t
<1>6. CASE ~EndsEscape(s, b) /\ b \in {"CR", "NL"}
  <2>1. b # "BS" /\ Put(text, b) = PutNewline(text)
    BY <1>1, <1>6 DEF Put
  <2>2. LineStart(Put(text, b)) /\ ~EndsInBackslash(Put(text, b))
    BY <2>1, NewlineStarts
  <2> HIDE DEF t
  <2>3. QED
    BY <1>1, <1>2, <1>4, <1>6, <2>1, <2>2 DEF EndsAlike, t
<1>7. CASE ~EndsEscape(s, b) /\ b \notin {"CR", "NL"}
  <2>1. Put(text, b) = Append(text, b)
    BY <1>1, <1>7 DEF Put
  <2>2. ~LineStart(Put(text, b)) /\ (EndsInBackslash(Put(text, b)) <=> b = "BS")
    BY <1>7, <2>1, LastFacts DEF LineStart, EndsInBackslash
  <2>3. Front(Put(text, b)) = text
    BY <2>1, LastFacts
  <2>4. AtStart(t, Len(t) - 1) <=> AtStart(s, Len(s))
    <3>1. Len(t) - 1 = Len(s)
      BY <1>3
    <3>2. Len(s) = 0 \/ Len(s) \in 1..Len(s)
      BY <1>3
    <3>3. Len(s) = 0 \/ (IsNewline(t, Len(s)) <=> IsNewline(s, Len(s)))
      BY <3>2, Newlines
    <3> HIDE DEF t
    <3>4. QED
      BY <3>1, <3>3 DEF AtStart
  <2> HIDE DEF t
  <2>5. QED
    BY <1>1, <1>2, <1>4, <1>7, <2>2, <2>3, <2>4 DEF EndsAlike, t
<1>8. QED
  BY <1>5, <1>6, <1>7

Picked(text, s) == IsPick(text, Newlined(s), KeptPlaces(s))

LEMMA StillPicked ==
  ASSUME NEW text \in Seq(Bytes), NEW s \in Seq(Bytes), NEW b \in Bytes,
         EndsAlike(text, s), Picked(text, s)
  PROVE  Picked(Put(text, b), Append(s, b))
<1> DEFINE m == Len(s)
           v == Newlined(s)
           w == Newlined(Append(s, b))
           K == KeptPlaces(s)
<1>1. m \in Nat /\ Len(Append(s, b)) = m + 1
  OBVIOUS
<1>2. Append(s, b)[m + 1] = b /\ \A i \in 1..m : Append(s, b)[i] = s[i]
  OBVIOUS
<1>3. \A i \in 1..m : w[i] = v[i]
  <2>1. \A i \in 1..m : i \in 1..(m + 1)
    BY <1>1
  <2>2. \A i \in 1..m : IsNewline(Append(s, b), i) <=> IsNewline(s, i)
    BY Newlines
  <2>3. QED
    BY <1>1, <1>2, <2>1, <2>2 DEF Newlined
<1>4. w[m + 1] = IF b \in {"CR", "NL"} \/ EndsEscape(s, b) THEN "NL" ELSE b
  <2>1. m + 1 \in 1..(m + 1)
    BY <1>1
  <2>2. IsNewline(Append(s, b), m + 1) <=> b \in {"CR", "NL"} \/ EndsEscape(s, b)
    BY Newlines
  <2>3. QED
    BY <1>1, <1>2, <2>1, <2>2 DEF Newlined
<1>5. /\ KeptPlaces(Append(s, b)) = NowKept(s, b)
      /\ EndsEscape(s, b) => m \in K
      /\ K \in SUBSET (1..m)
  BY Keeps
<1>6. EndsEscape(text, b) <=> EndsEscape(s, b)
  BY StillEndsAlike
<1>7. IsPick(text, v, K) /\ (LineStart(text) <=> AtStart(s, m))
  BY DEF Picked, EndsAlike
<1>8. "NL" \in Bytes
  BY DEF Bytes, Escapes
<1> HIDE DEF v, w, K
<1>9. CASE EndsEscape(s, b)
  <2>1. text # <<>> /\ b = "n" /\ Put(text, b) = PutNewline(Front(text)) /\ EndsInBackslash(s)
    BY <1>6, <1>9 DEF Put, EndsEscape, EndsInBackslash
  <2>2. m \in Nat \ {0}
    BY <1>1, <1>9, LastEscape
  <2>3. IsPick(Front(text), w, K \ {m})
    <3> HIDE DEF m
    <3>1. QED
      BY <1>3, <1>5, <1>7, <1>9, <2>2, PickFront
  <2>4. Front(text) \in Seq(Bytes) /\ (LineStart(Front(text)) <=> AtStart(s, m - 1))
    BY <2>1, LastFacts DEF EndsAlike
  <2>5. NowKept(s, b) = (K \ {m}) \cup {i \in {m + 1} : ~AtStart(s, m - 1)}
    BY <1>9, <2>1 DEF NowKept, K
  <2>6. CASE LineStart(Front(text))
    <3>1. Put(text, b) = Front(text) /\ NowKept(s, b) = K \ {m}
      BY <2>1, <2>4, <2>5, <2>6, NewlineStarts
    <3>2. QED
      BY <1>5, <2>3, <3>1 DEF Picked, w
  <2>7. CASE ~LineStart(Front(text))
    <3>1. Put(text, b) = Append(Front(text), "NL") /\ NowKept(s, b) = (K \ {m}) \cup {m + 1}
      BY <2>1, <2>4, <2>5, <2>7, NewlineStarts
    <3>2. w[m + 1] = "NL" /\ K \ {m} \in SUBSET (1..m)
      BY <1>4, <1>5, <1>9
    <3>3. IsPick(Append(Front(text), "NL"), w, (K \ {m}) \cup {m + 1})
      <4> HIDE DEF m
      <4>1. QED
        BY <1>1, <1>8, <2>3, <2>4, <3>2, PickAppend
    <3>4. QED
      BY <1>5, <3>1, <3>3 DEF Picked, w
  <2>8. QED
    BY <2>6, <2>7
<1>10. CASE ~EndsEscape(s, b) /\ (b \in {"CR", "NL"} => ~LineStart(text))
  <2> DEFINE e == IF b \in {"CR", "NL"} THEN "NL" ELSE b
  <2>1. Put(text, b) = Append(text, e)
    BY <1>6, <1>10, NewlineStarts DEF Put
  <2>2. NowKept(s, b) = K \cup {m + 1}
    BY <1>7, <1>10 DEF NowKept, K
  <2>3. w[m + 1] = e /\ e \in Bytes
    BY <1>4, <1>8, <1>10
  <2>4. IsPick(Append(text, e), w, K \cup {m + 1})
    <3> HIDE DEF m, e
    <3>1. QED
      BY <1>1, <1>3, <1>5, <1>7, <2>3, PickAppend
  <2>5. QED
    BY <1>5, <2>1, <2>2, <2>4 DEF Picked, w
<1>11. CASE ~EndsEscape(s, b) /\ b \in {"CR", "NL"} /\ LineStart(text)
  <2>1. Put(text, b) = text
    BY <1>6, <1>11, NewlineStarts DEF Put
  <2>2. NowKept(s, b) = K
    BY <1>7, <1>11 DEF NowKept, K
  <2>3. IsPick(text, w, K)
    <3> HIDE DEF m
    <3>1. QED
      BY <1>1, <1>3, <1>5, <1>7, PickSame
  <2>4. QED
    BY <1>5, <2>1, <2>2, <2>3 DEF Picked, w
<1>12. QED
  BY <1>9, <1>10, <1>11

-----------------------------------------------------------------------------
\* What was picked, and how it ends, which decides what the next byte does.
TextInv ==
  gsCertLoading => Picked(PemCertificate, received) /\ EndsAlike(PemCertificate, received)

LEMMA EmptyPicked == Picked(<<>>, <<>>) /\ EndsAlike(<<>>, <<>>)
<1>1. KeptPlaces(<<>>) = {}
  BY DEF KeptPlaces
<1>2. Picked(<<>>, <<>>)
  BY <1>1, FS_EmptySet DEF Picked, IsPick
<1>3. EndsAlike(<<>>, <<>>)
  BY DEF EndsAlike, LineStart, EndsInBackslash, AtStart
<1>4. QED
  BY <1>2, <1>3

\* What a step does to the loader.
LEMMA LoaderSteps ==
  ASSUME [Next]_vars
  PROVE  \/ ~gsCertLoading'
         \/ UNCHANGED loader
         \/ PemCertificate' = <<>> /\ received' = <<>>
         \/ \E b \in Bytes : gsCertLoading /\ KeepsReading(b)
<1> DEFINE Goal == \/ ~gsCertLoading'
                   \/ UNCHANGED loader
                   \/ PemCertificate' = <<>> /\ received' = <<>>
                   \/ \E b \in Bytes : gsCertLoading /\ KeepsReading(b)
<1>1. StopsReading => Goal
  BY DEF StopsReading
<1>2. CipSslCert \/ Reset => Goal
  BY DEF CipSslCert, Reset
<1>3. UNCHANGED vars \/ LinkCloses \/ CipStartSsl => UNCHANGED loader
  BY DEF vars, loader, LinkCloses, CipStartSsl
<1>4. \A x : CipSslAuth(x) \/ CipSslFp(x) \/ CipSslSize(x) \/ CipSslCertMax(x) \/ CipSslCertDelete(x)
              => UNCHANGED loader
  BY DEF CipSslAuth, CipSslFp, CipSslSize, CipSslCertMax, CipSslCertDelete
<1>5. \A b \in Certs \cup Escapes : PemByte(b) => StopsReading \/ (gsCertLoading /\ KeepsReading(b))
  BY DEF PemByte, Reading
<1>6. PemLoaded \/ PemIllegal => StopsReading
  BY DEF PemLoaded, PemIllegal
<1>7. PemNotLoaded => gsCertLoading /\ KeepsReading("E")
  BY DEF PemNotLoaded, EndMarker, Reading
<1>8. Certs \cup Escapes \subseteq Bytes /\ "E" \in Bytes
  BY DEF Bytes
<1>9. UNCHANGED loader \/ (\E b \in Bytes : gsCertLoading /\ KeepsReading(b)) => Goal
  OBVIOUS
<1> HIDE DEF Goal
<1>10. Goal
  BY <1>1, <1>2, <1>3, <1>4, <1>5, <1>6, <1>7, <1>8, <1>9, CertSteps, Zenon
<1>11. QED
  BY <1>10 DEF Goal

LEMMA TextStep == TypeOK /\ TextInv /\ [Next]_vars => TextInv'
<1> SUFFICES ASSUME TypeOK, TextInv, [Next]_vars, gsCertLoading'
             PROVE  /\ Picked(PemCertificate, received)'
                    /\ EndsAlike(PemCertificate, received)'
  BY DEF TextInv
<1>1. CASE UNCHANGED loader
  <2>1. gsCertLoading /\ PemCertificate' = PemCertificate /\ received' = received
    BY <1>1 DEF loader
  <2>2. QED
    BY <2>1 DEF TextInv, Picked, EndsAlike
<1>2. CASE PemCertificate' = <<>> /\ received' = <<>>
  BY <1>2, EmptyPicked
<1>3. ASSUME NEW b \in Bytes, gsCertLoading, KeepsReading(b)
      PROVE  Picked(PemCertificate, received)' /\ EndsAlike(PemCertificate, received)'
  <2>1. PemCertificate' = Put(PemCertificate, b) /\ received' = Append(received, b)
    BY <1>3 DEF KeepsReading
  <2>2. PemCertificate \in Seq(Bytes) /\ received \in Seq(Bytes)
    BY DEF TypeOK
  <2>3. Picked(PemCertificate, received) /\ EndsAlike(PemCertificate, received)
    BY <1>3 DEF TextInv
  <2>4. /\ Picked(Put(PemCertificate, b), Append(received, b))
        /\ EndsAlike(Put(PemCertificate, b), Append(received, b))
    BY <2>2, <2>3, StillPicked, StillEndsAlike
  <2>5. QED
    BY <2>1, <2>4
<1>4. QED
  BY <1>1, <1>2, <1>3, LoaderSteps

\* The decoder is given the host's text with its newlines normalised, for a text of
\* any length.
THEOREM TextNormalisedCorrect == Spec => []TextNormalised
<1>1. Init => TextInv
  BY DEF Init, TextInv
<1>2. TextInv => TextNormalised
  BY DEF TextInv, TextNormalised, Picked
<1>3. QED
  BY <1>1, <1>2, TextStep, CertsTypeCorrect, PTL DEF Spec
=============================================================================
