--------------------------- MODULE FormatsProofs ---------------------------
(***************************************************************************)
(* Proofs about TrojanProtocol for every client, every set of credentials  *)
(* and all lengths of the fields.                                          *)
(*                                                                         *)
(* The fields that were read are the bytes of the stream at their places   *)
(* in a header (DecodedInv), and the field that is being read starts where *)
(* they end (OffsetInv).  So the fields are those of any request the       *)
(* stream begins with, and no parser refuses one (TrackInv).               *)
(***************************************************************************)
EXTENDS TrojanProtocol, SequenceTheorems, TLAPS

\* Most leaves are first-order reasoning; those with arithmetic or larger
\* expressions over records and sequences cite SMT.
USE Zenon

\* The bytes of a port.
High(n) == n \div 256
Low(n) == n % 256
Number(high, low) == 256 * high + low

\* Where the host of a request starts in its header, less one.
HostOffset(atyp) == credentialLength + 4 + (IF atyp = addressDomain THEN 1 ELSE 0)

\* Where the field that is being read starts, less one.
Start == CASE field = "credential" -> 0
           [] field = "command" -> credentialLength + 2
           [] field = "length" -> credentialLength + 4
           [] field = "host" -> HostOffset(got.atyp)
           [] field = "suffix" -> HostOffset(got.atyp) + got.length
           [] field = "done" -> HostOffset(got.atyp) + got.length + 4

Fields ==
    [credential : Seq(Byte), command : Byte, atyp : Byte, length : Nat,
     host : Seq(Byte), port : Nat]

TypeOK ==
    /\ sent \in Clients /\ {fallback, late} \subseteq BOOLEAN
    /\ consumed \in 0..Len(stream)
    /\ {prefix, buf, out} \subseteq Seq(Byte)
    /\ field \in {"credential", "command", "length", "host", "suffix", "done", "bad"}
    /\ got \in Fields
    /\ place \in {"header", "replay", "copy", "packets", "ended", "closed"}

CredentialRead ==
    /\ got.credential = SubSeq(stream, 1, credentialLength)
    /\ validCredential(got.credential)
    /\ stream[credentialLength + 1] = 13 /\ stream[credentialLength + 2] = 10

CommandRead ==
    /\ got.command = stream[credentialLength + 3]
    /\ got.atyp = stream[credentialLength + 4]
    /\ got.command \in {commandConnect, commandUDPAssociate}
    /\ got.atyp \in {addressIPv4, addressDomain, addressIPv6}

LengthRead ==
    /\ got.length = IF got.atyp = addressDomain THEN stream[credentialLength + 5]
                                                ELSE AddressLength(got.atyp)
    /\ got.length > 0

HostRead ==
    got.host = SubSeq(stream, HostOffset(got.atyp) + 1, HostOffset(got.atyp) + got.length)

SuffixRead ==
    LET at == HostOffset(got.atyp) + got.length
    IN  /\ got.port = Number(stream[at + 1], stream[at + 2])
        /\ stream[at + 3] = 13 /\ stream[at + 4] = 10

DecodedInv ==
    /\ field \notin {"credential", "bad"} => CredentialRead
    /\ field \in {"length", "host", "suffix", "done"} => CommandRead
    /\ field = "length" => got.atyp = addressDomain
    /\ field \in {"host", "suffix", "done"} => LengthRead
    /\ field \in {"suffix", "done"} => HostRead
    /\ field = "done" => SuffixRead

OffsetInv ==
    /\ place = "header" /\ field # "bad" =>
          /\ consumed = Start + Len(buf)
          /\ \A j \in 1..Len(buf) : buf[j] = stream[Start + j]
          /\ field = "done" => buf = <<>>
          /\ field # "done" => Len(buf) < Size
    /\ place # "header" => field \in {"done", "bad"}
    /\ field = "done" => Start <= consumed

PrefixInv ==
    /\ fallback => prefix = SubSeq(stream, 1, Len(prefix)) /\ Len(prefix) <= consumed
    /\ place \in {"header", "replay"} => out = <<>> /\ (fallback => Len(prefix) = consumed)
    /\ place = "replay" => fallback /\ ~Authenticated
    /\ place = "packets" => Authenticated
    /\ Website /\ place # "replay" => /\ fallback
                                      /\ out = SubSeq(stream, 1, consumed)
    /\ Website /\ place = "ended" => consumed = Len(stream)

ServedInv ==
    place \in {"copy", "packets", "ended"} /\ ~Website =>
        /\ ~InvalidTarget
        /\ place # "ended" => place = Serve
        /\ out = SubSeq(stream, Start + 1, Start + Len(out))
        /\ IF Serve = "copy" THEN consumed = Start + Len(out) ELSE out = <<>>
        /\ place = "ended" /\ Serve = "copy" => consumed = Len(stream)

\* Of a proper request that the stream begins with, nothing is refused: only the
\* deadline stops the parsers, and then inside the header.
TrackInv ==
    \A r \in sent.request :
        Proper(r) /\ Begins(r, stream) /\ field = "bad" =>
            late /\ (fallback => Len(prefix) < Len(Header(r)))

ClosedInv == place = "closed" /\ Authenticated => InvalidTarget

IndInv ==
    TypeOK /\ DecodedInv /\ OffsetInv /\ PrefixInv /\ ServedInv /\ TrackInv /\ ClosedInv
----------------------------------------------------------------------------
\* The lengths of the fields are positive, and addresses are not longer than
\* domains may be.
LEMMA Lengths ==
    /\ credentialLength \in Nat /\ credentialLength > 0
    /\ MaxDomain \in Nat
    /\ \A atyp : AddressLength(atyp) \in Nat /\ AddressLength(atyp) > 0
                                           /\ AddressLength(atyp) <= MaxDomain
    /\ \A atyp : HostOffset(atyp) \in Nat
    /\ HostOffset(addressDomain) = credentialLength + 5
    /\ \A atyp : atyp # addressDomain => HostOffset(atyp) = credentialLength + 4
BY SMT, ProtocolAssumption DEF AddressLength, HostOffset, addressDomain

\* u is s of length m followed by t of length n, place by place.
Joined(s, t, u, m, n) ==
    /\ u \in Seq(Int) /\ Len(u) = m + n
    /\ \A i \in 1..m : u[i] = s[i]
    /\ \A i \in 1..n : u[m + i] = t[i]

LEMMA Concatenation ==
    ASSUME NEW s \in Seq(Int), NEW t \in Seq(Int), NEW m \in Nat, NEW n \in Nat,
           m = Len(s), n = Len(t)
    PROVE  Joined(s, t, s \o t, m, n)
BY SMT DEF Joined

\* h holds a credential of length c, command, address type, L of length l, host of
\* length n and the bytes of the port, with the host after k bytes.
Layout(h, credential, c, command, atyp, L, l, k, host, n, hi, lo) ==
    /\ h \in Seq(Int) /\ Len(h) = k + n + 4
    /\ \A i \in 1..c : h[i] = credential[i]
    /\ h[c + 1] = 13 /\ h[c + 2] = 10
    /\ h[c + 3] = command /\ h[c + 4] = atyp
    /\ \A i \in 1..l : h[c + 4 + i] = L[i]
    /\ \A i \in 1..n : h[k + i] = host[i]
    /\ h[k + n + 1] = hi /\ h[k + n + 2] = lo
    /\ h[k + n + 3] = 13 /\ h[k + n + 4] = 10

LEMMA JoinedLayout ==
    ASSUME NEW credential, NEW c \in Nat, NEW command, NEW atyp, NEW L, NEW l \in Nat,
           NEW k \in Nat, k = c + 4 + l, NEW host, NEW n \in Nat,
           NEW crlf, crlf[1] = 13, crlf[2] = 10,
           NEW t, t[1] = command, t[2] = atyp,
           NEW hi, NEW lo, NEW p, p[1] = hi, p[2] = lo,
           NEW a, NEW b, NEW d, NEW e, NEW g, NEW h, NEW m \in Nat, m = k + n,
           Joined(credential, crlf, a, c, 2), Joined(a, t, b, c + 2, 2),
           Joined(b, L, d, c + 4, l), Joined(d, host, e, k, n),
           Joined(e, p, g, m, 2), Joined(g, crlf, h, m + 2, 2)
    PROVE  Layout(h, credential, c, command, atyp, L, l, k, host, n, hi, lo)
<1>1. 1 \in 1..2 /\ 2 \in 1..2
  BY SMT
<1>2. /\ \A i \in 1..m + 2 : h[i] = g[i]
      /\ h[(m + 2) + 1] = 13 /\ h[(m + 2) + 2] = 10
  BY <1>1 DEF Joined
<1>3. /\ \A i \in 1..m : g[i] = e[i]
      /\ g[m + 1] = hi /\ g[m + 2] = lo
  BY <1>1 DEF Joined
<1>4. (\A i \in 1..k : e[i] = d[i]) /\ \A i \in 1..n : e[k + i] = host[i]
  BY DEF Joined
<1>5. (\A i \in 1..c + 4 : d[i] = b[i]) /\ \A i \in 1..l : d[c + 4 + i] = L[i]
  BY DEF Joined
<1>6. /\ \A i \in 1..c + 2 : b[i] = a[i]
      /\ b[(c + 2) + 1] = command /\ b[(c + 2) + 2] = atyp
  BY <1>1 DEF Joined
<1>7. (\A i \in 1..c : a[i] = credential[i]) /\ a[c + 1] = 13 /\ a[c + 2] = 10
  BY <1>1 DEF Joined
<1>8. \A i \in 1..m : h[i] = e[i]
  BY SMT, <1>2, <1>3
<1>9. \A i \in 1..k : h[i] = d[i]
  BY SMT, <1>4, <1>8
<1>10. \A i \in 1..c + 4 : h[i] = b[i]
  BY SMT, <1>5, <1>9
<1>11. \A i \in 1..c + 2 : h[i] = a[i]
  BY SMT, <1>6, <1>10
<1>12. (\A i \in 1..c : h[i] = credential[i]) /\ h[c + 1] = 13 /\ h[c + 2] = 10
  BY SMT, <1>7, <1>11
<1>13. h[c + 3] = command /\ h[c + 4] = atyp
  BY SMT, <1>6, <1>10
<1>14. \A i \in 1..l : h[c + 4 + i] = L[i]
  BY SMT, <1>5, <1>9
<1>15. \A i \in 1..n : h[k + i] = host[i]
  BY SMT, <1>4, <1>8
<1>16. h[k + n + 1] = hi /\ h[k + n + 2] = lo
  BY SMT, <1>2, <1>3
<1>17. h[k + n + 3] = 13 /\ h[k + n + 4] = 10
  BY SMT, <1>2
<1>18. h \in Seq(Int) /\ Len(h) = k + n + 4
  <2>1. h \in Seq(Int) /\ Len(h) = (m + 2) + 2
    BY DEF Joined
  <2> QED BY SMT, <2>1
<1> QED
  BY <1>12, <1>13, <1>14, <1>15, <1>16, <1>17, <1>18 DEF Layout

\* The bytes of credential, command, address type, length of the host, host, port.
LEMMA HeaderBytes ==
    ASSUME NEW credential \in Seq(Int), NEW c \in Nat, Len(credential) = c,
           NEW command \in Int, NEW atyp \in Int,
           NEW L \in Seq(Int), NEW l \in Nat, Len(L) = l, NEW k \in Nat, k = c + 4 + l,
           NEW host \in Seq(Int), NEW n \in Nat, Len(host) = n, NEW port \in Nat
    PROVE  Layout(credential \o CRLF \o <<command, atyp>> \o L \o host \o PutUint16(port)
                    \o CRLF, credential, c, command, atyp, L, l, k, host, n,
                  High(port), Low(port))
<1>1. CRLF \in Seq(Int) /\ Len(CRLF) = 2 /\ CRLF[1] = 13 /\ CRLF[2] = 10
  BY SMT DEF CRLF
<1>2. PICK t : t = <<command, atyp>>
  OBVIOUS
<1>3. t \in Seq(Int) /\ Len(t) = 2 /\ t[1] = command /\ t[2] = atyp
  BY SMT, <1>2
<1>4. PICK p : p = PutUint16(port)
  OBVIOUS
<1>5. p \in Seq(Int) /\ Len(p) = 2 /\ p[1] = High(port) /\ p[2] = Low(port)
  BY SMT, <1>4 DEF PutUint16, High, Low
<1>6. PICK a : a = credential \o CRLF
  OBVIOUS
<1>7. PICK b : b = a \o t
  OBVIOUS
<1>8. PICK d : d = b \o L
  OBVIOUS
<1>9. PICK e : e = d \o host
  OBVIOUS
<1>10. PICK g : g = e \o p
  OBVIOUS
<1>11. PICK h : h = g \o CRLF
  OBVIOUS
<1>12. PICK m : m = k + n
  OBVIOUS
<1>13. 2 \in Nat /\ c + 2 \in Nat /\ c + 4 \in Nat /\ m \in Nat /\ m + 2 \in Nat
  BY SMT, <1>12
<1>14. Joined(credential, CRLF, a, c, 2)
  BY <1>1, <1>6, <1>13, Concatenation
<1>15. a \in Seq(Int) /\ Len(a) = c + 2
  BY <1>14 DEF Joined
<1>16. Joined(a, t, b, c + 2, 2)
  BY <1>3, <1>7, <1>13, <1>15, Concatenation
<1>17. b \in Seq(Int) /\ Len(b) = c + 4
  BY SMT, <1>16 DEF Joined
<1>18. Joined(b, L, d, c + 4, l)
  BY <1>8, <1>13, <1>17, Concatenation
<1>19. d \in Seq(Int) /\ Len(d) = k
  BY <1>18 DEF Joined
<1>20. Joined(d, host, e, k, n)
  BY <1>9, <1>19, Concatenation
<1>21. e \in Seq(Int) /\ Len(e) = m
  BY <1>12, <1>20 DEF Joined
<1>22. Joined(e, p, g, m, 2)
  BY <1>5, <1>10, <1>13, <1>21, Concatenation
<1>23. g \in Seq(Int) /\ Len(g) = m + 2
  BY <1>22 DEF Joined
<1>24. Joined(g, CRLF, h, m + 2, 2)
  BY <1>1, <1>11, <1>13, <1>23, Concatenation
<1>25. Layout(h, credential, c, command, atyp, L, l, k, host, n, p[1], p[2])
  BY <1>1, <1>3, <1>12, <1>13, <1>14, <1>16, <1>18, <1>20, <1>22, <1>24,
     JoinedLayout
<1> QED
  BY <1>2, <1>4, <1>5, <1>6, <1>7, <1>8, <1>9, <1>10, <1>11, <1>25

\* bytes holds the request r; its host is n bytes after the first k.
Holds(bytes, r, n, k, c) ==
    /\ \A i \in 1..c : bytes[i] = r.credential[i]
    /\ bytes[c + 1] = 13 /\ bytes[c + 2] = 10
    /\ bytes[c + 3] = r.command /\ bytes[c + 4] = r.atyp
    /\ r.atyp = addressDomain => bytes[c + 5] = n
    /\ \A i \in 1..n : bytes[k + i] = r.host[i]
    /\ bytes[k + n + 1] = High(r.port) /\ bytes[k + n + 2] = Low(r.port)
    /\ bytes[k + n + 3] = 13 /\ bytes[k + n + 4] = 10

Shaped(r, n, k, c) ==
    /\ n \in Nat /\ n > 0 /\ k \in Nat /\ c \in Nat /\ c > 0
    /\ k = c + 4 \/ k = c + 5
    /\ r.atyp = addressDomain => k = c + 5
    /\ Holds(Header(r), r, n, k, c)

\* What the bytes of an encoded request are.
LEMMA HeaderShape ==
    ASSUME NEW r, WellFormed(r), NEW n, n = Len(r.host),
           NEW k, k = HostOffset(r.atyp), NEW c, c = credentialLength
    PROVE  Header(r) \in Seq(Int) /\ Len(Header(r)) = k + n + 4 /\ Shaped(r, n, k, c)
<1>1. Byte \subseteq Int /\ Port \subseteq Nat
  BY SMT DEF Byte, Port
<1>2. /\ r.credential \in Seq(Int) /\ Len(r.credential) = c /\ c \in Nat
      /\ r.host \in Seq(Int)
  BY <1>1, Lengths, SeqMonotonic DEF WellFormed
<1>3. n \in Nat \ {0}
  BY EmptySeq DEF WellFormed
<1>4. {addressIPv4, addressIPv6, addressDomain} \subseteq Int
  BY SMT DEF addressIPv4, addressIPv6, addressDomain
<1>5. r.command \in Int /\ r.atyp \in Int /\ r.port \in Nat
  BY <1>1, <1>4 DEF WellFormed
<1>6. PICK L : L = IF r.atyp = addressDomain THEN <<n>> ELSE <<>>
  OBVIOUS
<1>7. /\ k \in Nat /\ (r.atyp = addressDomain => k = c + 5)
      /\ (r.atyp # addressDomain => k = c + 4)
  BY Lengths
<1>8. PICK l \in Nat : /\ L \in Seq(Int) /\ Len(L) = l /\ k = c + 4 + l
                       /\ r.atyp = addressDomain => l = 1 /\ L[1] = n
  <2>1. CASE r.atyp = addressDomain
    <3>1. L \in Seq(Int) /\ Len(L) = 1 /\ L[1] = n
      BY SMT, <1>3, <1>6, <2>1
    <3>2. 1 \in Nat /\ k = c + 4 + 1
      BY SMT, <1>2, <1>7, <2>1
    <3> QED BY <3>1, <3>2
  <2>2. CASE r.atyp # addressDomain
    <3>1. L \in Seq(Int) /\ Len(L) = 0
      BY SMT, <1>6, <2>2
    <3>2. 0 \in Nat /\ k = c + 4 + 0
      BY SMT, <1>2, <1>7, <2>2
    <3> QED BY <2>2, <3>1, <3>2
  <2> QED BY <2>1, <2>2
<1>9. Layout(Header(r), r.credential, c, r.command, r.atyp, L, l, k, r.host, n,
             High(r.port), Low(r.port))
  BY <1>2, <1>3, <1>5, <1>6, <1>7, <1>8, HeaderBytes DEF Header
<1>10. PICK h : h = Header(r)
  OBVIOUS
<1>11. r.atyp = addressDomain => h[c + 5] = n
  <2>1. r.atyp = addressDomain => h[c + 4 + 1] = L[1]
    <3>1. 1 \in 1..1
      BY SMT
    <3> QED BY <1>8, <1>9, <1>10, <3>1 DEF Layout
  <2>2. c + 4 + 1 = c + 5
    BY SMT, <1>2
  <2> QED BY <1>8, <2>1, <2>2
<1>12. n > 0 /\ n \in Nat
  BY SMT, <1>3
<1> QED
  BY <1>2, <1>7, <1>9, <1>10, <1>11, <1>12, Lengths DEF Layout, Holds, Shaped

\* Bytes that agree hold the same requests.
LEMMA HoldsTransfer ==
    ASSUME NEW r, NEW n \in Nat, NEW k \in Nat, NEW c \in Nat, k = c + 4 \/ k = c + 5, n > 0,
           NEW s, NEW t, \A i \in 1..k + n + 4 : s[i] = t[i], Holds(t, r, n, k, c)
    PROVE  Holds(s, r, n, k, c)
<1>1. /\ 1..c \subseteq 1..k + n + 4
      /\ \A i \in 1..n : k + i \in 1..k + n + 4
      /\ c + 5 \in 1..k + n + 4
      /\ {c + 1, c + 2, c + 3, c + 4} \subseteq 1..k + n + 4
  BY SMT
<1>2. {k + n + 1, k + n + 2, k + n + 3, k + n + 4} \subseteq 1..k + n + 4
  BY SMT
<1> QED BY <1>1, <1>2 DEF Holds

\* Bytes that hold the same request agree.
Agree(s, t, m) == \A i \in 1..m : s[i] = t[i]

LEMMA HoldsSame ==
    ASSUME NEW r, NEW n \in Nat, NEW k \in Nat, NEW c \in Nat,
           k = HostOffset(r.atyp), c = credentialLength,
           NEW s, NEW t, Holds(s, r, n, k, c), Holds(t, r, n, k, c)
    PROVE  Agree(s, t, k + n + 4)
<1> SUFFICES ASSUME NEW i \in 1..k + n + 4 PROVE s[i] = t[i]
  BY DEF Agree
<1>1. \/ i \in 1..c
      \/ i \in {c + 1, c + 2, c + 3, c + 4}
      \/ r.atyp = addressDomain /\ i = c + 5
      \/ \E j \in 1..n : i = k + j
      \/ i \in {k + n + 1, k + n + 2, k + n + 3, k + n + 4}
  <2>1. (r.atyp = addressDomain /\ k = c + 5) \/ (r.atyp # addressDomain /\ k = c + 4)
    BY Lengths
  <2>2. i <= c + 4 \/ (r.atyp = addressDomain /\ i = c + 5) \/ i > k
    <3>1. CASE r.atyp = addressDomain /\ k = c + 5
      <4>1. i <= c + 4 \/ i = c + 5 \/ i > k
        BY SMT, <3>1
      <4> QED BY <3>1, <4>1
    <3>2. CASE k = c + 4
      <4>1. i <= c + 4 \/ i > k
        BY SMT, <3>2
      <4> QED BY <4>1
    <3> QED BY <2>1, <3>1, <3>2
  <2>3. i > k /\ i <= k + n => i - k \in 1..n /\ i = k + (i - k)
    BY SMT
  <2>4. i <= c + 4 => i \in 1..c \/ i \in {c + 1, c + 2, c + 3, c + 4}
    BY SMT
  <2>5. i > k => i <= k + n \/ i \in {k + n + 1, k + n + 2, k + n + 3, k + n + 4}
    <3>1. \/ i <= k + n \/ i = k + n + 1 \/ i = k + n + 2 \/ i = k + n + 3
          \/ i = k + n + 4
      BY SMT
    <3> QED BY <3>1
  <2> QED BY <2>1, <2>2, <2>3, <2>4, <2>5
<1>2. CASE i \in 1..c \/ i \in {c + 1, c + 2, c + 3, c + 4}
  BY <1>2 DEF Holds
<1>3. CASE r.atyp = addressDomain /\ i = c + 5
  BY <1>3 DEF Holds
<1>4. CASE \E j \in 1..n : i = k + j
  <2>1. PICK j \in 1..n : i = k + j
    BY <1>4
  <2>2. s[k + j] = r.host[j] /\ t[k + j] = r.host[j]
    BY DEF Holds
  <2> QED BY <2>1, <2>2
<1>5. CASE i \in {k + n + 1, k + n + 2, k + n + 3, k + n + 4}
  BY <1>5 DEF Holds
<1> QED BY <1>1, <1>2, <1>3, <1>4, <1>5

\* A sequence begins with a header that it agrees with at every place.
LEMMA BeginsPointwise ==
    ASSUME NEW r, NEW bytes \in Seq(Int), Header(r) \in Seq(Int)
    PROVE  Begins(r, bytes) <=> /\ Len(Header(r)) <= Len(bytes)
                                /\ \A i \in 1..Len(Header(r)) : bytes[i] = Header(r)[i]
<1> DEFINE H == Header(r)
<1> HIDE DEF H
<1>1. H \in Seq(Int) /\ Len(H) \in Nat /\ Len(bytes) \in Nat
  BY LenProperties DEF H
<1>2. ASSUME Len(H) <= Len(bytes)
      PROVE  SubSeq(bytes, 1, Len(H)) = H <=> \A i \in 1..Len(H) : bytes[i] = H[i]
  BY SMT, <1>1, <1>2
<1> QED
  BY <1>1, <1>2 DEF Begins, HasPrefix, H
----------------------------------------------------------------------------
\* The bytes of a client.
LEMMA StreamBytes ==
    ASSUME TypeOK
    PROVE  /\ stream \in Seq(Byte) /\ stream \in Seq(Int) /\ Len(stream) \in Nat
           /\ \A i \in 1..Len(stream) : stream[i] \in Byte
           /\ consumed \in Nat /\ consumed <= Len(stream)
<1>1. stream \in Seq(Byte)
  BY ClientsAssumption DEF TypeOK, stream
<1>2. Byte \subseteq Int
  BY SMT DEF Byte
<1>3. /\ Len(stream) \in Nat /\ stream \in Seq(Int)
      /\ \A i \in 1..Len(stream) : stream[i] \in Byte
  BY <1>1, <1>2, LenProperties, SeqMonotonic, ElementOfSeq
<1>4. consumed \in 0..Len(stream)
  BY DEF TypeOK
<1>5. consumed \in Nat /\ consumed <= Len(stream)
  BY SMT, <1>3, <1>4
<1> QED BY <1>1, <1>3, <1>5

\* What the stream holds when it begins with a request of the client.
Found(r, n, k, c) ==
    /\ Len(Header(r)) = k + n + 4 /\ k + n + 4 <= Len(stream)
    /\ n \in Nat /\ n > 0 /\ n <= MaxDomain /\ k \in Nat /\ c \in Nat
    /\ k = c + 4 \/ k = c + 5
    /\ Holds(stream, r, n, k, c)

LEMMA RequestBytes ==
    ASSUME TypeOK, NEW r \in sent.request, Begins(r, stream),
           NEW n, n = Len(r.host), NEW k, k = HostOffset(r.atyp), NEW c, c = credentialLength
    PROVE  Found(r, n, k, c)
<1>1. WellFormed(r) /\ n <= MaxDomain
  BY ClientsAssumption DEF TypeOK
<1>2. Header(r) \in Seq(Int) /\ Len(Header(r)) = k + n + 4 /\ Shaped(r, n, k, c)
  BY <1>1, HeaderShape
<1>3. Len(Header(r)) <= Len(stream) /\ \A i \in 1..Len(Header(r)) : stream[i] = Header(r)[i]
  BY <1>2, StreamBytes, BeginsPointwise
<1>4. \A i \in 1..k + n + 4 : stream[i] = Header(r)[i]
  BY <1>2, <1>3
<1>5. Holds(stream, r, n, k, c)
  BY <1>2, <1>4, HoldsTransfer DEF Shaped
<1> QED BY <1>1, <1>2, <1>3, <1>5 DEF Shaped, Found

\* A part of a sequence is what it agrees with place by place.
LEMMA PartIs ==
    ASSUME NEW s \in Seq(Int), NEW t \in Seq(Int), NEW o \in Nat, NEW m \in Nat, Len(t) = m,
           o + m <= Len(s), \A i \in 1..m : s[o + i] = t[i]
    PROVE  SubSeq(s, o + 1, o + m) = t
BY SMT

LEMMA PartPlaces ==
    ASSUME NEW s \in Seq(Int), NEW a \in Nat, NEW m \in Nat, a + m <= Len(s),
           NEW i \in 1..m
    PROVE  SubSeq(s, a + 1, a + m)[i] = s[a + i]
BY SMTT(30)

LEMMA BeginningIs ==
    ASSUME NEW s \in Seq(Int), NEW t \in Seq(Int), NEW m \in Nat, Len(t) = m,
           m <= Len(s), \A i \in 1..m : s[i] = t[i]
    PROVE  SubSeq(s, 1, m) = t
BY SMT

\* The fields that were read are those of a request the stream begins with.
LEMMA Agreement ==
    ASSUME TypeOK, DecodedInv, NEW r \in sent.request, Begins(r, stream),
           NEW n, n = Len(r.host), NEW k, k = HostOffset(r.atyp), NEW c, c = credentialLength
    PROVE  /\ field \notin {"credential", "bad"} => got.credential = r.credential
           /\ field \in {"length", "host", "suffix", "done"} =>
                 got.command = r.command /\ got.atyp = r.atyp
           /\ field \in {"host", "suffix", "done"} => got.length = n
           /\ field \in {"suffix", "done"} => got.host = r.host
           /\ field = "done" => got.port = r.port
<1>1. /\ k + n + 4 <= Len(stream) /\ n \in Nat /\ n > 0 /\ k \in Nat /\ c \in Nat
      /\ k = c + 4 \/ k = c + 5
      /\ Holds(stream, r, n, k, c)
  <2>1. Found(r, n, k, c)
    BY RequestBytes
  <2> QED BY <2>1 DEF Found
<1>2. WellFormed(r)
  BY ClientsAssumption DEF TypeOK
<1>3. /\ r.credential \in Seq(Int) /\ Len(r.credential) = c
      /\ r.host \in Seq(Int) /\ r.port \in Nat
  <2>1. Byte \subseteq Int /\ Port \subseteq Nat
    BY SMT DEF Byte, Port
  <2> QED BY <1>2, <2>1, SeqMonotonic DEF WellFormed
<1>4. stream \in Seq(Int) /\ Len(stream) \in Nat
  BY StreamBytes
<1>5. field \notin {"credential", "bad"} => got.credential = r.credential
  <2>1. c <= Len(stream)
    BY SMT, <1>1, <1>4
  <2>2. \A i \in 1..c : stream[i] = r.credential[i]
    BY <1>1 DEF Holds
  <2>3. SubSeq(stream, 1, c) = r.credential
    BY <1>1, <1>3, <1>4, <2>1, <2>2, BeginningIs
  <2> QED BY <2>3 DEF DecodedInv, CredentialRead
<1>6. field \in {"length", "host", "suffix", "done"} =>
         got.command = r.command /\ got.atyp = r.atyp
  BY <1>1 DEF Holds, DecodedInv, CommandRead
<1>7. field \in {"host", "suffix", "done"} => got.length = n
  <2>1. CASE r.atyp = addressDomain
    BY <1>1, <1>6, <2>1 DEF Holds, DecodedInv, LengthRead
  <2>2. CASE r.atyp # addressDomain
    BY <1>2, <1>6, <2>2 DEF WellFormed, DecodedInv, LengthRead
  <2> QED BY <2>1, <2>2
<1>8. field \in {"suffix", "done"} => got.host = r.host
  <2>1. k + n <= Len(stream)
    BY SMT, <1>1, <1>4
  <2>2. \A i \in 1..n : stream[k + i] = r.host[i]
    BY <1>1 DEF Holds
  <2>3. SubSeq(stream, k + 1, k + n) = r.host
    <3>1. PICK s, h : s = stream /\ h = r.host
      OBVIOUS
    <3>2. s \in Seq(Int) /\ h \in Seq(Int) /\ Len(h) = n /\ n \in Nat /\ k \in Nat
      BY <1>1, <1>3, <1>4, <3>1
    <3>3. k + n <= Len(s) /\ \A i \in 1..n : s[k + i] = h[i]
      BY <2>1, <2>2, <3>1
    <3>4. SubSeq(s, k + 1, k + n) = h
      BY <3>2, <3>3, PartIs
    <3> QED BY <3>1, <3>4
  <2> QED BY <1>6, <1>7, <2>3 DEF DecodedInv, HostRead
<1>9. field = "done" => got.port = r.port
  <2>1. PICK p : p = r.port
    OBVIOUS
  <2>2. Number(High(p), Low(p)) = p
    BY SMTT(30), <1>3, <2>1 DEF Number, High, Low
  <2>3. CASE field = "done"
    <3>1. got.port = Number(stream[k + n + 1], stream[k + n + 2])
      BY <1>6, <1>7, <2>3 DEF DecodedInv, SuffixRead
    <3>2. stream[k + n + 1] = High(p) /\ stream[k + n + 2] = Low(p)
      BY <1>1, <2>1 DEF Holds
    <3> QED BY <2>1, <2>2, <3>1, <3>2
  <2> QED BY <2>3
<1> QED BY <1>5, <1>6, <1>7, <1>8, <1>9

\* Every field lies inside the header of a request the stream begins with.
LEMMA InsideHeader ==
    ASSUME TypeOK, DecodedInv, NEW r \in sent.request, Begins(r, stream),
           field # "bad"
    PROVE  /\ field # "done" => Start + Size <= Len(Header(r))
           /\ field = "done" => Start = Len(Header(r))
           /\ Len(Header(r)) <= Len(stream) /\ Len(Header(r)) <= maxInitialHeaderSize
           /\ Len(Header(r)) \in Nat
<1>1. PICK n, k, c : n = Len(r.host) /\ k = HostOffset(r.atyp) /\ c = credentialLength
  OBVIOUS
<1>2. /\ Len(Header(r)) = k + n + 4 /\ k + n + 4 <= Len(stream)
      /\ n \in Nat /\ n > 0 /\ n <= MaxDomain /\ k \in Nat /\ c \in Nat
      /\ k = c + 4 \/ k = c + 5
  <2>1. Found(r, n, k, c)
    BY <1>1, RequestBytes
  <2> QED BY <2>1 DEF Found
<1>3. field \in {"length", "host", "suffix", "done"} => HostOffset(got.atyp) = k
  BY <1>1, Agreement
<1>4. field \in {"host", "suffix", "done"} => got.length = n
  BY <1>1, Agreement
<1>5. field = "length" => k = c + 5
  BY <1>1, <1>3, Lengths DEF DecodedInv
<1>6. field \in {"credential", "command", "length", "host", "suffix", "done"}
  BY DEF TypeOK
<1>7. k + n + 4 <= maxInitialHeaderSize /\ k + n + 4 \in Nat
  BY SMTT(30), <1>1, <1>2, Lengths DEF maxInitialHeaderSize
<1>8. CASE field = "credential"
  <2>1. Start = 0 /\ Size = c + 2
    BY <1>1, <1>8 DEF Start, Size
  <2>2. 0 + (c + 2) <= k + n + 4
    BY SMT, <1>2
  <2> QED BY <1>2, <1>7, <1>8, <2>1, <2>2
<1>9. CASE field = "command"
  <2>1. Start = c + 2 /\ Size = 2
    BY <1>1, <1>9 DEF Start, Size
  <2>2. c + 2 + 2 <= k + n + 4
    BY SMT, <1>2
  <2> QED BY <1>2, <1>7, <1>9, <2>1, <2>2
<1>10. CASE field = "length"
  <2>1. Start = c + 4 /\ Size = 1
    BY <1>1, <1>10 DEF Start, Size
  <2>2. c + 4 + 1 <= k + n + 4
    BY SMT, <1>2
  <2> QED BY <1>2, <1>7, <1>10, <2>1, <2>2
<1>11. CASE field = "host"
  <2>1. Start = k /\ Size = n
    BY <1>3, <1>4, <1>11 DEF Start, Size
  <2>2. k + n <= k + n + 4
    BY SMT, <1>2
  <2> QED BY <1>2, <1>7, <1>11, <2>1, <2>2
<1>12. CASE field = "suffix"
  <2>1. Start = k + n /\ Size = 4
    BY <1>3, <1>4, <1>12 DEF Start, Size
  <2>2. k + n + 4 <= k + n + 4
    BY SMT, <1>2
  <2> QED BY <1>2, <1>7, <1>12, <2>1, <2>2
<1>13. CASE field = "done"
  <2>1. Start = k + n + 4
    BY <1>3, <1>4, <1>13 DEF Start
  <2> QED BY <1>2, <1>7, <1>13, <2>1
<1> QED
  BY <1>6, <1>8, <1>9, <1>10, <1>11, <1>12, <1>13
----------------------------------------------------------------------------
LEMMA InitInv == Init => IndInv
<1> SUFFICES ASSUME Init PROVE IndInv
  OBVIOUS
<1>1. TypeOK
  <2>1. <<>> \in Seq(Byte) /\ 0 \in Byte /\ 0 \in Nat
    BY SMT DEF Byte
  <2>2. stream \in Seq(Byte)
    BY ClientsAssumption DEF Init, stream
  <2>3. 0 \in 0..Len(stream)
    BY SMT, <2>2
  <2> QED BY <2>1, <2>3 DEF Init, TypeOK, Fields
<1>2. stream \in Seq(Int)
  BY <1>1, StreamBytes
<1>3. Len(<<>>) = 0 /\ SubSeq(stream, 1, 0) = <<>> /\ 1..0 = {} /\ 0 + 0 = 0 /\ 0 <= 0
  BY SMT, <1>2
<1>4. DecodedInv
  BY DEF Init, DecodedInv
<1>5. OffsetInv
  <2>1. Start = 0 /\ Size = credentialLength + 2 /\ 0 < credentialLength + 2
    <3>1. 0 < credentialLength + 2
      BY SMT, Lengths
    <3> QED BY <3>1 DEF Init, Start, Size
  <2> QED BY <1>3, <2>1 DEF Init, OffsetInv
<1>6. PrefixInv /\ ServedInv /\ TrackInv /\ ClosedInv
  BY <1>3 DEF Init, PrefixInv, ServedInv, TrackInv, ClosedInv, Website
<1> QED BY <1>1, <1>4, <1>5, <1>6 DEF IndInv

\* What depends on the client and the fields alone.
LEMMA Kept ==
    ASSUME UNCHANGED <<sent, fallback, field, got>>
    PROVE  /\ stream' = stream /\ Start' = Start /\ Size' = Size
           /\ DecodedInv => DecodedInv'
           /\ Authenticated' <=> Authenticated
           /\ InvalidTarget' <=> InvalidTarget
           /\ Serve' = Serve
<1>1. stream' = stream
  BY DEF stream
<1>2. DecodedInv => DecodedInv'
  <2>1. /\ CredentialRead' <=> CredentialRead
        /\ CommandRead' <=> CommandRead
        /\ LengthRead' <=> LengthRead
        /\ HostRead' <=> HostRead
        /\ SuffixRead' <=> SuffixRead
    BY <1>1 DEF CredentialRead, CommandRead, LengthRead, HostRead, SuffixRead
  <2> QED BY <2>1 DEF DecodedInv
<1> QED
  BY <1>1, <1>2 DEF Start, Size, Authenticated, InvalidTarget, Serve

\* What was kept for the website stays within what was consumed.
LEMMA PrefixStays ==
    ASSUME IndInv, UNCHANGED <<prefix, fallback>>, consumed' \in Nat, consumed <= consumed'
    PROVE  fallback' => Len(prefix') <= consumed'
<1>1. PICK p, b, d : p = Len(prefix) /\ b = consumed /\ d = consumed'
  OBVIOUS
<1>2. p \in Nat /\ b \in Nat /\ d \in Nat /\ b <= d
  BY <1>1, StreamBytes, LenProperties DEF IndInv, TypeOK
<1>3. fallback => p <= b
  BY <1>1 DEF IndInv, PrefixInv
<1>4. p <= b => p <= d
  BY SMT, <1>2
<1> QED BY <1>1, <1>3, <1>4

LEMMA ClassifyStep == IndInv /\ Classify => IndInv'
<1> SUFFICES ASSUME IndInv, Classify PROVE IndInv'
  OBVIOUS
<1>1. UNCHANGED <<sent, fallback, consumed, prefix, field, buf, got, late, out, delivered>>
  BY DEF Classify, reading
<1>2. /\ stream' = stream /\ Start' = Start /\ DecodedInv'
      /\ Authenticated' <=> Authenticated
      /\ InvalidTarget' <=> InvalidTarget
      /\ Serve' = Serve
  BY <1>1, Kept DEF IndInv
<1>3. Serve \in {"packets", "copy"}
  BY DEF Serve
<1>4. place = "header" /\ field \in {"done", "bad"}
  BY DEF Classify, InHeader
<1>5. place' \in {"replay", "copy", "packets", "closed"}
  BY <1>3 DEF Classify
<1>6. TypeOK'
  BY <1>1, <1>2, <1>5 DEF IndInv, TypeOK
<1>7. OffsetInv'
  BY <1>1, <1>2, <1>4, <1>5 DEF IndInv, OffsetInv
<1>8. TrackInv'
  BY <1>1, <1>2 DEF IndInv, TrackInv
<1>9. out = <<>> /\ (fallback => Len(prefix) = consumed)
  BY <1>4 DEF IndInv, PrefixInv
<1>10. /\ place' \in {"copy", "packets"} => Authenticated /\ ~InvalidTarget /\ place' = Serve
       /\ place' = "replay" => ~Authenticated /\ fallback
       /\ place' = "closed" /\ Authenticated => InvalidTarget
  BY <1>3 DEF Classify
<1>11. PrefixInv'
  BY <1>1, <1>2, <1>5, <1>9, <1>10 DEF IndInv, PrefixInv, Website
<1>12. ServedInv'
  <2>1. CASE place' \in {"copy", "packets"}
    <3>1. field = "done"
      BY <1>10, <2>1 DEF Authenticated
    <3>2. consumed = Start + Len(buf) /\ buf = <<>>
      BY <1>4, <3>1 DEF IndInv, OffsetInv
    <3>3. Len(<<>>) = 0
      BY SMT
    <3>4. consumed \in Nat /\ stream \in Seq(Int)
      BY StreamBytes DEF IndInv
    <3>5. PICK st : st = Start
      OBVIOUS
    <3>6. st \in Nat
      <4>1. HostOffset(got.atyp) \in Nat /\ got.length \in Nat
        BY Lengths DEF IndInv, TypeOK, Fields
      <4>2. st = HostOffset(got.atyp) + got.length + 4
        BY <3>1, <3>5 DEF Start
      <4> QED BY SMT, <4>1, <4>2
    <3>7. SubSeq(stream, st + 1, st + 0) = <<>> /\ consumed = st + 0
      <4>1. consumed = st + 0
        BY <3>2, <3>3, <3>5
      <4> QED BY SMT, <3>4, <3>6, <4>1
    <3> QED
      BY <1>1, <1>2, <1>9, <1>10, <2>1, <3>3, <3>5, <3>7 DEF ServedInv
  <2>2. CASE place' \notin {"copy", "packets"}
    BY <1>5, <2>2 DEF ServedInv
  <2> QED BY <2>1, <2>2
<1>13. ClosedInv'
  BY <1>2, <1>10 DEF ClosedInv
<1> QED
  BY <1>2, <1>6, <1>7, <1>8, <1>11, <1>12, <1>13 DEF IndInv

LEMMA ReplayStep == IndInv /\ Replay => IndInv'
<1> SUFFICES ASSUME IndInv, Replay PROVE IndInv'
  OBVIOUS
<1>1. UNCHANGED <<sent, fallback, consumed, prefix, field, buf, got, late, delivered>>
  BY DEF Replay, reading
<1>2. /\ stream' = stream /\ Start' = Start /\ DecodedInv'
      /\ Authenticated' <=> Authenticated
  BY <1>1, Kept DEF IndInv
<1>3. place = "replay" /\ place' = "copy" /\ out' = prefix
  BY DEF Replay
<1>4. TypeOK'
  BY <1>1, <1>2, <1>3 DEF IndInv, TypeOK
<1>5. OffsetInv'
  BY <1>1, <1>2, <1>3 DEF IndInv, OffsetInv
<1>6. PrefixInv'
  BY <1>1, <1>2, <1>3 DEF IndInv, PrefixInv, Website
<1>7. ~Authenticated
  BY <1>3 DEF IndInv, PrefixInv
<1>8. ServedInv' /\ ClosedInv' /\ TrackInv'
  BY <1>1, <1>2, <1>3, <1>7 DEF IndInv, ServedInv, ClosedInv, TrackInv, Website
<1> QED
  BY <1>2, <1>4, <1>5, <1>6, <1>8 DEF IndInv

\* What was copied, and n bytes of what was not.
Copied(s, a, b, rest, n) ==
    SubSeq(s, a + 1, b) \o SubSeq(rest, 1, n) = SubSeq(s, a + 1, b + n)

LEMMA CopyMore ==
    ASSUME NEW s \in Seq(Int), NEW a \in Nat, NEW b \in Nat, a <= b,
           NEW rest, rest = SubSeq(s, b + 1, Len(s)), b <= Len(s), NEW n \in 1..Len(rest)
    PROVE  Copied(s, a, b, rest, n)
<1>1. rest \in Seq(Int) /\ Len(rest) = Len(s) - b
  BY SMT
<1>2. b + n \in Nat /\ b + n <= Len(s)
  BY SMT, <1>1
<1>3. SubSeq(rest, 1, n) = SubSeq(s, b + 1, b + n)
  BY SMT, <1>1, <1>2
<1>4. SubSeq(s, a + 1, b) \o SubSeq(s, b + 1, b + n) = SubSeq(s, a + 1, b + n)
  <2>1. a + 1 \in 1..Len(s) + 1 /\ b \in (a + 1) - 1..Len(s) /\ b + n \in b..Len(s)
    BY SMT, <1>2
  <2> QED BY <2>1, ConcatAdjacentSubSeq
<1> QED BY <1>3, <1>4 DEF Copied

\* The part of a stream up to n has the bytes and the length it should have.
LEMMA PartOf ==
    ASSUME NEW s \in Seq(Int), NEW a \in Nat, NEW b \in Nat, a <= b, b <= Len(s)
    PROVE  SubSeq(s, a + 1, b) \in Seq(Int) /\ Len(SubSeq(s, a + 1, b)) = b - a
BY SMT

LEMMA CopyBytes ==
    ASSUME NEW s \in Seq(Byte), NEW b \in Nat, b <= Len(s), NEW o \in Seq(Byte),
           NEW rest, rest = SubSeq(s, b + 1, Len(s)), NEW n \in 1..Len(rest)
    PROVE  o \o SubSeq(rest, 1, n) \in Seq(Byte)
<1>1. rest \in Seq(Byte) /\ Len(rest) \in Nat
  BY SMT
<1>2. SubSeq(rest, 1, n) \in Seq(Byte)
  BY SMT, <1>1
<1> QED BY <1>2, ConcatProperties

LEMMA CopyStep == IndInv /\ Copy => IndInv'
<1> SUFFICES ASSUME IndInv, Copy PROVE IndInv'
  OBVIOUS
<1>1. UNCHANGED <<sent, fallback, prefix, field, buf, got, late, delivered>>
  BY DEF Copy, reading
<1>2. /\ stream' = stream /\ Start' = Start /\ DecodedInv'
      /\ Authenticated' <=> Authenticated
      /\ InvalidTarget' <=> InvalidTarget
      /\ Serve' = Serve
  BY <1>1, Kept DEF IndInv
<1>3. place = "copy" /\ place' \in {"copy", "ended"}
  BY DEF Copy
<1>4. /\ stream \in Seq(Byte) /\ stream \in Seq(Int) /\ Len(stream) \in Nat
      /\ consumed \in Nat /\ consumed <= Len(stream)
  BY StreamBytes DEF IndInv
<1>5. PICK s, b, st, rest : s = stream /\ b = consumed /\ st = Start /\ rest = Rest
  OBVIOUS
<1>6. rest = SubSeq(s, b + 1, Len(s))
  BY <1>5 DEF Rest
<1>7. Website \/ Authenticated
  BY <1>3 DEF Website
<1>8. Authenticated => field = "done"
  BY DEF Authenticated
<1>9. Authenticated => st \in Nat /\ st <= b
  <2>1. CASE Authenticated
    <3>1. HostOffset(got.atyp) \in Nat /\ got.length \in Nat
      BY Lengths DEF IndInv, TypeOK, Fields
    <3>2. st = HostOffset(got.atyp) + got.length + 4
      BY <1>5, <1>8, <2>1 DEF Start
    <3>3. st <= b
      BY <1>5, <1>8, <2>1 DEF IndInv, OffsetInv
    <3> QED BY SMT, <3>1, <3>2, <3>3
  <2> QED BY <2>1
<1>10. CASE Rest = <<>>
  <2>1. place' = "ended" /\ consumed' = consumed /\ out' = out
    BY <1>10 DEF Copy
  <2>2. consumed = Len(stream)
    <3>1. SubSeq(s, b + 1, Len(s)) = <<>> /\ s \in Seq(Int) /\ b \in Nat /\ b <= Len(s)
      BY <1>4, <1>5, <1>6, <1>10
    <3>2. Len(SubSeq(s, b + 1, Len(s))) = Len(s) - b /\ Len(s) \in Nat
      <4>1. Len(s) \in Nat /\ Len(s) <= Len(s)
        BY SMT, <3>1
      <4> QED BY <3>1, <4>1, PartOf
    <3>3. Len(<<>>) = 0
      BY SMT
    <3>4. b = Len(s)
      <4>1. Len(s) - b = 0
        BY <3>1, <3>2, <3>3
      <4> QED BY SMT, <3>1, <3>2, <4>1
    <3> QED BY <1>5, <3>4
  <2>3. TypeOK'
    BY <1>1, <1>2, <2>1 DEF IndInv, TypeOK
  <2>4. OffsetInv'
    BY <1>1, <1>2, <1>3, <2>1 DEF IndInv, OffsetInv
  <2>5. PrefixInv'
    BY <1>1, <1>2, <1>3, <2>1, <2>2 DEF IndInv, PrefixInv, Website
  <2>6. ServedInv'
    BY <1>1, <1>2, <1>3, <2>1, <2>2 DEF IndInv, ServedInv, Website
  <2>7. TrackInv' /\ ClosedInv'
    BY <1>1, <1>2, <2>1 DEF IndInv, TrackInv, ClosedInv
  <2> QED BY <1>2, <2>3, <2>4, <2>5, <2>6, <2>7 DEF IndInv
<1>11. CASE Rest # <<>>
  <2>1. PICK n \in 1..Len(Rest) :
            out' = out \o SubSeq(Rest, 1, n) /\ consumed' = consumed + n /\ place' = place
    BY <1>11 DEF Copy
  <2>2. n \in 1..Len(rest) /\ out' = out \o SubSeq(rest, 1, n)
    BY <1>5, <2>1
  <2>3. b \in Nat /\ b <= Len(s) /\ s \in Seq(Byte) /\ s \in Seq(Int)
    BY <1>4, <1>5
  <2>4. \A a \in Nat : a <= b => Copied(s, a, b, rest, n)
    BY <1>6, <2>2, <2>3, CopyMore
  <2>5. b + n \in Nat /\ b + n <= Len(s)
    <3>1. Len(rest) = Len(s) - b
      BY SMT, <1>6, <2>3
    <3> QED BY SMT, <2>2, <2>3, <3>1
  <2>6. consumed' = b + n /\ b + n \in 0..Len(s)
    <3>1. b + n \in 0..Len(s)
      BY SMT, <2>3, <2>5
    <3> QED BY <1>5, <2>1, <3>1
  <2>7. out' \in Seq(Byte)
    <3>1. out \in Seq(Byte)
      BY DEF IndInv, TypeOK
    <3> QED BY <1>6, <2>2, <2>3, <3>1, CopyBytes
  <2>8. TypeOK'
    BY <1>1, <1>2, <1>3, <1>5, <2>6, <2>7 DEF IndInv, TypeOK
  <2>9. OffsetInv'
    <3>1. field = "done" => st <= b + n
      <4>1. field = "done" => st <= b /\ st \in Nat
        <5>1. CASE field = "done"
          <6>1. HostOffset(got.atyp) \in Nat /\ got.length \in Nat
            BY Lengths DEF IndInv, TypeOK, Fields
          <6>2. st = HostOffset(got.atyp) + got.length + 4 /\ st <= b
            BY <1>5, <5>1 DEF Start, IndInv, OffsetInv
          <6> QED BY SMT, <6>1, <6>2
        <5> QED BY <5>1
      <4>2. n \in Nat
        BY SMT, <2>2
      <4> QED BY SMT, <2>3, <4>1, <4>2
    <3> QED BY <1>1, <1>2, <1>3, <1>5, <2>1, <2>6, <3>1 DEF IndInv, OffsetInv
  <2>10. PrefixInv'
    <3> fallback' => Len(prefix') <= consumed'
      <4>1. b + n \in Nat /\ b <= b + n
        BY SMT, <2>3
      <4> QED BY <1>1, <1>5, <2>1, <4>1, PrefixStays
    <3>1. CASE Website
      <4>1. fallback /\ out = SubSeq(s, 1, b)
        BY <1>3, <1>5, <3>1 DEF IndInv, PrefixInv
      <4>2. 0 \in Nat /\ 0 <= b /\ 0 + 1 = 1
        BY SMT, <2>3
      <4>3. out' = SubSeq(s, 1, b + n)
        BY <2>2, <2>4, <4>1, <4>2 DEF Copied
      <4> QED
        BY <1>1, <1>2, <1>3, <1>5, <2>1, <2>6, <4>1, <4>3 DEF IndInv, PrefixInv,
           Website
    <3>2. CASE ~Website
      BY <1>1, <1>2, <1>3, <2>1, <3>2 DEF IndInv, PrefixInv, Website
    <3> QED BY <3>1, <3>2
  <2>11. ServedInv'
    <3>1. CASE ~Website
      <4>1. /\ ~InvalidTarget /\ Serve = "copy" /\ b = st + Len(out)
            /\ out = SubSeq(s, st + 1, st + Len(out))
        BY <1>3, <1>5, <3>1 DEF IndInv, ServedInv
      <4>2. st \in Nat /\ st <= b
        BY <1>7, <1>9, <3>1
      <4>3. out = SubSeq(s, st + 1, b)
        BY <4>1
      <4>4. out' = SubSeq(s, st + 1, b + n)
        BY <2>2, <2>4, <4>2, <4>3 DEF Copied
      <4>5. Len(out') = (b + n) - st /\ (b + n) = st + ((b + n) - st)
        <5>1. st <= b + n /\ (b + n) = st + ((b + n) - st)
          <6>1. n \in Nat
            BY SMT, <2>2
          <6> QED BY SMT, <2>3, <4>2, <6>1
        <5> QED BY <2>3, <2>5, <4>2, <4>4, <5>1, PartOf
      <4> QED
        BY <1>1, <1>2, <1>3, <1>5, <2>1, <2>6, <4>1, <4>4, <4>5 DEF ServedInv
    <3>2. CASE Website
      BY <1>2, <1>3, <2>1, <3>2 DEF ServedInv, Website
    <3> QED BY <3>1, <3>2
  <2>12. TrackInv' /\ ClosedInv'
    BY <1>1, <1>2, <1>3, <2>1 DEF IndInv, TrackInv, ClosedInv
  <2> QED BY <1>2, <2>8, <2>9, <2>10, <2>11, <2>12 DEF IndInv
<1> QED
  BY <1>10, <1>11

\* A packet takes no more than the bytes that are there.
LEMMA PacketSize ==
    ASSUME NEW bytes \in Seq(Byte), NEW p \in ReadPacket(bytes)
    PROVE  p.size \in Nat /\ p.size <= Len(bytes)
<1>1. bytes # <<>> /\ HostLength(bytes) # 0
  BY DEF ReadPacket
<1>2. \A i \in 1..Len(bytes) : bytes[i] \in Nat
  <2>1. Byte \subseteq Nat
    BY SMT DEF Byte
  <2> QED BY <2>1, ElementOfSeq
<1>3. Len(bytes) \in Nat /\ 1 \in 1..Len(bytes)
  BY SMT, <1>1
<1>4. HostLength(bytes) \in Nat /\ HostStart(bytes) \in Nat
  <2>1. HostStart(bytes) \in Nat
    BY SMT DEF HostStart
  <2>2. CASE bytes[1] = addressDomain
    <3> addressDomain \notin {addressIPv4, addressIPv6}
      BY SMT DEF addressDomain, addressIPv4, addressIPv6
    <3>1. CASE Len(bytes) > 1
      <4>1. 2 \in 1..Len(bytes)
        BY SMT, <1>3, <3>1
      <4> QED BY <1>2, <2>1, <2>2, <3>1, <4>1 DEF HostLength
    <3>2. CASE ~(Len(bytes) > 1)
      BY <1>1, <2>2, <3>2 DEF HostLength
    <3> QED BY <3>1, <3>2
  <2>3. CASE bytes[1] # addressDomain /\ bytes[1] \in {addressIPv4, addressIPv6}
    BY <2>1, <2>3, Lengths DEF HostLength
  <2>4. CASE bytes[1] # addressDomain /\ bytes[1] \notin {addressIPv4, addressIPv6}
    BY <1>1, <2>4 DEF HostLength
  <2> QED BY <2>2, <2>3, <2>4
<1>5. PICK at : at = HostStart(bytes) + HostLength(bytes)
  OBVIOUS
<1>6. PICK length : length = Uint16(SubSeq(bytes, at + 2, at + 3))
  OBVIOUS
<1>7. Len(bytes) >= at + 5
  <2>1. ~(Len(bytes) < at + 5)
    BY <1>1, <1>5 DEF ReadPacket
  <2> QED BY SMT, <1>3, <1>4, <1>5, <2>1
<1>8. /\ Len(bytes) >= at + 5 + length
      /\ p.size = at + 5 + Len(SubSeq(bytes, at + 6, at + 6 + length - 1))
  <2>1. PICK payload : payload = Payload(bytes, at + 6, length)
    OBVIOUS
  <2>2. /\ Len(bytes) >= at + 5 + length
        /\ \E atyp, host, port : p = [atyp |-> atyp, host |-> host, port |-> port,
                                      payload |-> payload, size |-> at + 5 + Len(payload)]
    BY <1>1, <1>5, <1>6, <1>7, <2>1 DEF ReadPacket
  <2>3. p.size = at + 5 + Len(payload)
    <3>1. PICK atyp, host, port : p = [atyp |-> atyp, host |-> host, port |-> port,
                                       payload |-> payload, size |-> at + 5 + Len(payload)]
      BY <2>2
    <3> QED BY SMT, <3>1
  <2> QED BY <2>1, <2>2, <2>3 DEF Payload
<1>9. length \in Nat
  <2>1. PICK q : q = SubSeq(bytes, at + 2, at + 3)
    OBVIOUS
  <2>2. at \in Nat
    BY SMT, <1>4, <1>5
  <2>3. bytes[at + 2] \in Nat /\ bytes[at + 3] \in Nat
    <3>1. at + 2 \in 1..Len(bytes) /\ at + 3 \in 1..Len(bytes)
      BY SMT, <1>3, <1>7, <2>2
    <3> QED BY <1>2, <3>1
  <2>4. q[1] = bytes[at + 2] /\ q[2] = bytes[at + 3]
    BY SMTT(30), <1>3, <1>7, <2>1, <2>2
  <2>5. length = 256 * q[1] + q[2]
    BY SMT, <1>6, <2>1 DEF Uint16
  <2>6. 256 * bytes[at + 2] + bytes[at + 3] \in Nat
    BY SMTT(30), <2>3
  <2> QED BY <2>4, <2>5, <2>6
<1>10. at \in Nat
  BY SMT, <1>4, <1>5
<1>11. Len(SubSeq(bytes, at + 6, at + 6 + length - 1)) = length
  <2>1. at + 6 + length - 1 = (at + 5) + length /\ at + 6 = (at + 5) + 1
    BY SMT, <1>9, <1>10
  <2>2. (at + 5) + length <= Len(bytes) /\ at + 5 \in Nat /\ (at + 5) + length \in Nat
    BY SMT, <1>3, <1>8, <1>9, <1>10
  <2>3. bytes \in Seq(Int) /\ at + 5 <= (at + 5) + length
    <3>1. Byte \subseteq Int
      BY SMT DEF Byte
    <3>2. at + 5 <= (at + 5) + length
      BY SMT, <1>9, <1>10
    <3> QED BY <3>1, <3>2, SeqMonotonic
  <2>4. Len(SubSeq(bytes, (at + 5) + 1, (at + 5) + length)) = ((at + 5) + length) - (at + 5)
    BY <2>2, <2>3, PartOf
  <2>5. ((at + 5) + length) - (at + 5) = length
    BY SMT, <1>9, <1>10
  <2> QED BY <2>1, <2>4, <2>5
<1>12. p.size = at + 5 + length
  BY <1>8, <1>11
<1> QED BY SMT, <1>3, <1>8, <1>9, <1>10, <1>12

LEMMA PacketStep == IndInv /\ Packet => IndInv'
<1> SUFFICES ASSUME IndInv, Packet PROVE IndInv'
  OBVIOUS
<1>1. UNCHANGED <<sent, fallback, prefix, field, buf, got, late, out>>
  BY DEF Packet, reading
<1>2. /\ stream' = stream /\ Start' = Start /\ DecodedInv'
      /\ Authenticated' <=> Authenticated
      /\ InvalidTarget' <=> InvalidTarget
      /\ Serve' = Serve
  BY <1>1, Kept DEF IndInv
<1>3. place = "packets" /\ place' \in {"packets", "ended"}
  BY DEF Packet
<1>4. Authenticated /\ field = "done" /\ Serve # "copy"
  BY <1>3 DEF IndInv, PrefixInv, ServedInv, Website, Authenticated
<1>5. consumed' \in 0..Len(stream) /\ consumed <= consumed'
  <2>1. PICK s, b, rest : s = stream /\ b = consumed /\ rest = Rest
    OBVIOUS
  <2>2. s \in Seq(Byte) /\ Len(s) \in Nat /\ b \in Nat /\ b <= Len(s)
    BY <2>1, StreamBytes DEF IndInv
  <2>3. rest = SubSeq(s, b + 1, Len(s))
    BY <2>1 DEF Rest
  <2>4. CASE ReadPacket(Rest) = {}
    <3>1. consumed' = b
      BY <2>1, <2>4 DEF Packet
    <3>2. b \in 0..Len(s) /\ b <= b
      BY SMT, <2>2
    <3> QED BY <2>1, <3>1, <3>2
  <2>5. CASE ReadPacket(Rest) # {}
    <3>1. PICK p \in ReadPacket(rest) : consumed' = b + p.size
      BY <2>1, <2>5 DEF Packet
    <3>2. rest \in Seq(Byte) /\ Len(rest) = Len(s) - b
      BY SMT, <2>2, <2>3
    <3>3. p.size \in Nat /\ p.size <= Len(rest)
      BY <3>2, PacketSize
    <3>4. b + p.size \in 0..Len(s) /\ b <= b + p.size
      BY SMT, <2>2, <3>2, <3>3
    <3> QED BY <2>1, <3>1, <3>4
  <2> QED BY <2>4, <2>5
<1>6. TypeOK'
  BY <1>1, <1>2, <1>3, <1>5 DEF IndInv, TypeOK
<1>7. OffsetInv'
  <2>1. Start <= consumed'
    <3>1. PICK st, b, d : st = Start /\ b = consumed /\ d = consumed'
      OBVIOUS
    <3>2. st <= b /\ b <= d /\ b \in Nat
      BY <1>4, <1>5, <3>1, StreamBytes DEF IndInv, OffsetInv
    <3>3. HostOffset(got.atyp) \in Nat /\ got.length \in Nat
      BY Lengths DEF IndInv, TypeOK, Fields
    <3>4. st = HostOffset(got.atyp) + got.length + 4
      BY <1>4, <3>1 DEF Start
    <3>5. d \in 0..Len(stream)
      BY <1>5, <3>1
    <3>6. st <= d
      BY SMT, <3>2, <3>3, <3>4, <3>5
    <3> QED BY <3>1, <3>6
  <2> QED BY <1>1, <1>2, <1>3, <1>4, <2>1 DEF OffsetInv
<1>8. PrefixInv'
  <2>1. consumed' \in Nat
    <3>1. PICK l, d : l = Len(stream) /\ d = consumed'
      OBVIOUS
    <3>2. l \in Nat /\ d \in 0..l
      BY <1>5, <3>1, StreamBytes DEF IndInv
    <3>3. d \in Nat
      BY SMT, <3>2
    <3> QED BY <3>1, <3>3
  <2>2. fallback' => Len(prefix') <= consumed'
    BY <1>1, <1>5, <2>1, PrefixStays
  <2> QED BY <1>1, <1>2, <1>3, <1>4, <2>2 DEF IndInv, PrefixInv, Website
<1>9. ServedInv'
  BY <1>1, <1>2, <1>3, <1>4 DEF IndInv, ServedInv, Website
<1>10. TrackInv' /\ ClosedInv'
  BY <1>1, <1>2, <1>3 DEF IndInv, TrackInv, ClosedInv
<1> QED
  BY <1>2, <1>6, <1>7, <1>8, <1>9, <1>10 DEF IndInv
----------------------------------------------------------------------------
\* The header is given up.
LEMMA GivenUp ==
    ASSUME IndInv, InHeader, field' = "bad", late' \in BOOLEAN,
           UNCHANGED <<sent, fallback, consumed, prefix, buf, got, place, out>>, TrackInv'
    PROVE  IndInv'
<1>1. stream' = stream
  BY DEF stream
<1>2. place = "header" /\ ~Authenticated /\ ~Authenticated'
  BY DEF InHeader, Authenticated
<1>3. TypeOK'
  BY <1>1 DEF IndInv, TypeOK
<1>4. DecodedInv' /\ OffsetInv'
  BY <1>2 DEF DecodedInv, OffsetInv
<1>5. PrefixInv' /\ ServedInv' /\ ClosedInv'
  BY <1>1, <1>2 DEF IndInv, PrefixInv, ServedInv, ClosedInv, Website
<1> QED BY <1>3, <1>4, <1>5 DEF IndInv

\* Inside a field the header of a request that the stream begins with is not over.
LEMMA NotOver ==
    ASSUME IndInv, InHeader, NEW r \in sent.request, Begins(r, stream)
    PROVE  /\ consumed < Len(Header(r)) /\ Len(Header(r)) <= Len(stream)
           /\ Len(Header(r)) <= maxInitialHeaderSize
           /\ Len(Header(r)) \in Nat /\ Len(stream) \in Nat /\ consumed \in Nat
<1>1. PICK h, st, sz, b : h = Len(Header(r)) /\ st = Start /\ sz = Size /\ b = Len(buf)
  OBVIOUS
<1>2. field \notin {"bad", "done"} /\ place = "header"
  BY DEF InHeader
<1>3. st + sz <= h /\ h <= Len(stream) /\ h <= maxInitialHeaderSize /\ h \in Nat
  BY <1>1, <1>2, InsideHeader DEF IndInv
<1>4. consumed = st + b /\ b < sz
  BY <1>1, <1>2 DEF IndInv, OffsetInv
<1>5. consumed \in Nat /\ Len(stream) \in Nat
  BY StreamBytes DEF IndInv
<1>6. st \in Nat /\ sz \in Nat /\ b \in Nat
  <2>1. buf \in Seq(Byte) /\ got.length \in Nat
    BY DEF IndInv, TypeOK, Fields
  <2>2. b \in Nat
    BY <1>1, <2>1, LenProperties
  <2>3. credentialLength \in Nat /\ HostOffset(got.atyp) \in Nat
    BY Lengths
  <2>4. /\ credentialLength + 2 \in Nat /\ credentialLength + 4 \in Nat
        /\ HostOffset(got.atyp) + got.length \in Nat
        /\ {0, 1, 2, 4} \subseteq Nat
    BY SMT, <2>1, <2>3
  <2>5. field \in {"credential", "command", "length", "host", "suffix"}
    BY <1>2 DEF IndInv, TypeOK
  <2> QED BY <1>1, <2>1, <2>2, <2>3, <2>4, <2>5 DEF Start, Size
<1>7. consumed < h
  BY SMT, <1>3, <1>4, <1>5, <1>6
<1> QED BY <1>1, <1>3, <1>5, <1>7

LEMMA TruncatedStep == IndInv /\ Truncated => IndInv'
<1> SUFFICES ASSUME IndInv, Truncated PROVE IndInv'
  OBVIOUS
<1>1. /\ InHeader /\ field' = "bad"
      /\ UNCHANGED <<sent, fallback, consumed, prefix, buf, got, late, place, out>>
      /\ consumed = Len(stream) \/ consumed = maxInitialHeaderSize
  BY DEF Truncated
<1>2. \A r \in sent.request : ~Begins(r, stream)
  <2> SUFFICES ASSUME NEW r \in sent.request, Begins(r, stream) PROVE FALSE
    OBVIOUS
  <2>1. PICK h, l : h = Len(Header(r)) /\ l = Len(stream)
    OBVIOUS
  <2>2. /\ consumed < h /\ h <= l /\ h <= maxInitialHeaderSize
        /\ h \in Nat /\ l \in Nat /\ consumed \in Nat
    BY <1>1, <2>1, NotOver
  <2>3. consumed = l \/ consumed = maxInitialHeaderSize
    BY <1>1, <2>1
  <2> QED BY SMT, <2>2, <2>3
<1>3. TrackInv'
  BY <1>1, <1>2 DEF TrackInv, stream
<1>4. late' \in BOOLEAN
  BY <1>1 DEF IndInv, TypeOK
<1> QED BY <1>1, <1>3, <1>4, GivenUp

LEMMA DeadlineStep == IndInv /\ DeadlinePasses => IndInv'
<1> SUFFICES ASSUME IndInv, DeadlinePasses PROVE IndInv'
  OBVIOUS
<1>1. /\ InHeader /\ field' = "bad" /\ late' = TRUE
      /\ UNCHANGED <<sent, fallback, consumed, prefix, buf, got, place, out>>
  BY DEF DeadlinePasses
<1>2. fallback => Len(prefix) = consumed
  BY <1>1 DEF IndInv, PrefixInv, InHeader
<1>3. TrackInv'
  BY <1>1, <1>2, NotOver DEF TrackInv, stream
<1> QED BY <1>1, <1>3, GivenUp
----------------------------------------------------------------------------
\* b is the field that is being read, complete with the next byte.
Filled(b) ==
    /\ b \in Seq(Byte) /\ b \in Seq(Int) /\ Len(b) = Size /\ Size \in Nat
    /\ Start \in Nat /\ consumed + 1 = Start + Size /\ consumed + 1 <= Len(stream)
    /\ \A j \in 1..Size : b[j] = stream[Start + j]

\* What the parser of a field does to the header.
Advanced ==
    /\ field' \in {"command", "length", "host", "suffix", "done", "bad"}
    /\ got' \in Fields
    /\ DecodedInv'
    /\ field' # "bad" => Start' = consumed + 1
    /\ field' \notin {"bad", "done"} => 0 < Size'
    /\ field' = "bad" => \A r \in sent.request : Proper(r) => ~Begins(r, stream)

\* Two bytes are the end of a line.
LEMMA EndOfLine ==
    ASSUME NEW b \in Seq(Int), NEW i \in Nat, i > 0, i + 1 <= Len(b)
    PROVE  SubSeq(b, i, i + 1) = CRLF <=> b[i] = 13 /\ b[i + 1] = 10
<1>1. PICK q : q = SubSeq(b, i, i + 1)
  OBVIOUS
<1>2. q \in Seq(Int) /\ Len(q) = 2 /\ q[1] = b[i] /\ q[2] = b[i + 1]
  <2>1. q \in Seq(Int) /\ Len(q) = 2
    BY SMT, <1>1
  <2>2. PICK a : a = i - 1
    OBVIOUS
  <2>3. a \in Nat /\ a + 2 <= Len(b) /\ a + 1 = i /\ a + 2 = i + 1
    BY SMT, <2>2
  <2>4. 1 \in 1..2 /\ 2 \in 1..2 /\ 2 \in Nat
    BY SMT
  <2>5. q = SubSeq(b, a + 1, a + 2)
    BY <1>1, <2>3
  <2>6. \A j \in 1..2 : SubSeq(b, a + 1, a + 2)[j] = b[a + j]
    BY <2>3, <2>4, PartPlaces
  <2> QED BY <2>1, <2>3, <2>4, <2>5, <2>6
<1>3. q = <<13, 10>> <=> q[1] = 13 /\ q[2] = 10
  BY SMT, <1>2
<1> QED BY <1>1, <1>2, <1>3 DEF CRLF

\* The fields with some of them read.
LEMMA Reading ==
    ASSUME NEW g \in Fields, NEW s \in Seq(Byte), NEW x \in Byte, NEW y \in Byte,
           NEW n \in Nat
    PROVE  /\ [g EXCEPT !.credential = s] \in Fields
           /\ [g EXCEPT !.command = x, !.atyp = y, !.length = n] \in Fields
           /\ [g EXCEPT !.length = n] \in Fields
           /\ [g EXCEPT !.host = s] \in Fields
           /\ [g EXCEPT !.port = n] \in Fields
<1>1. PICK S, B : S = Seq(Byte) /\ B = Byte
  OBVIOUS
<1>2. g \in [credential : S, command : B, atyp : B, length : Nat, host : S, port : Nat]
      /\ s \in S /\ x \in B /\ y \in B
  BY <1>1 DEF Fields
<1>3. [g EXCEPT !.credential = s] \in
          [credential : S, command : B, atyp : B, length : Nat, host : S, port : Nat]
  BY <1>2
<1>4. [g EXCEPT !.command = x, !.atyp = y, !.length = n] \in
          [credential : S, command : B, atyp : B, length : Nat, host : S, port : Nat]
  BY <1>2
<1>5. [g EXCEPT !.length = n] \in
          [credential : S, command : B, atyp : B, length : Nat, host : S, port : Nat]
  BY <1>2
<1>6. [g EXCEPT !.host = s] \in
          [credential : S, command : B, atyp : B, length : Nat, host : S, port : Nat]
  BY <1>2
<1>7. [g EXCEPT !.port = n] \in
          [credential : S, command : B, atyp : B, length : Nat, host : S, port : Nat]
  BY <1>2
<1> QED
  BY <1>1, <1>3, <1>4, <1>5, <1>6, <1>7 DEF Fields

LEMMA CredentialStep ==
    ASSUME IndInv, NEW b, Filled(b), field = "credential", ReadCredential(b),
           sent' = sent, fallback' = fallback
    PROVE  Advanced
<1>1. PICK c, s : c = credentialLength /\ s = stream
  OBVIOUS
<1>2. Start = 0 /\ Size = c + 2
  BY <1>1 DEF Start, Size
<1>3. /\ b \in Seq(Byte) /\ b \in Seq(Int) /\ Len(b) = c + 2 /\ c \in Nat
      /\ consumed + 1 = 0 + (c + 2) /\ consumed + 1 <= Len(s)
      /\ \A j \in 1..c + 2 : b[j] = s[0 + j]
  BY <1>1, <1>2, Lengths DEF Filled
<1>4. s \in Seq(Byte) /\ s \in Seq(Int) /\ Len(s) \in Nat
  BY <1>1, StreamBytes DEF IndInv
<1>5. c + 2 <= Len(s) /\ consumed + 1 = c + 2 /\ \A j \in 1..c + 2 : b[j] = s[j]
  BY SMT, <1>3, <1>4
<1>6. PICK credential : credential = SubSeq(b, 1, c)
  OBVIOUS
<1>7. credential \in Seq(Byte) /\ credential = SubSeq(s, 1, c)
  <2>1. credential \in Seq(Byte) /\ credential \in Seq(Int) /\ Len(credential) = c
        /\ \A j \in 1..c : credential[j] = b[j]
    BY SMT, <1>3, <1>6
  <2>2. c <= Len(s) /\ \A j \in 1..c : s[j] = credential[j]
    BY SMTT(30), <1>3, <1>4, <1>5, <2>1
  <2> QED BY <1>3, <1>4, <2>1, <2>2, BeginningIs
<1>8. SubSeq(b, c + 1, c + 2) = CRLF <=> s[c + 1] = 13 /\ s[c + 2] = 10
  <2>1. c + 1 \in Nat /\ c + 1 > 0 /\ (c + 1) + 1 = c + 2 /\ c + 2 <= c + 2
        /\ c + 1 \in 1..c + 2 /\ c + 2 \in 1..c + 2
    BY SMT, <1>3
  <2>2. PICK i : i = c + 1
    OBVIOUS
  <2>3. i \in Nat /\ i > 0 /\ i + 1 = c + 2 /\ i + 1 <= Len(b)
    BY <1>3, <2>1, <2>2
  <2>4. SubSeq(b, i, i + 1) = CRLF <=> b[i] = 13 /\ b[i + 1] = 10
    BY <1>3, <2>3, EndOfLine
  <2> QED BY <1>5, <2>1, <2>2, <2>3, <2>4
<1>9. /\ got' = [got EXCEPT !.credential = credential]
      /\ field' = IF SubSeq(b, c + 1, c + 2) = CRLF /\ validCredential(credential)
                       /\ (fallback \/ credential \in Granted) THEN "command" ELSE "bad"
  BY <1>1, <1>6 DEF ReadCredential
<1>10. got \in Fields
  BY DEF IndInv, TypeOK
<1>11. /\ got' \in Fields
       /\ got'.credential = credential
  <2>1. got' \in Fields
    <3>1. 0 \in Byte /\ 0 \in Nat
      BY SMT DEF Byte
    <3> QED BY <1>7, <1>9, <1>10, <3>1, Reading
  <2>2. [got EXCEPT !.credential = credential].credential = credential
    BY <1>10 DEF Fields
  <2> QED BY <1>9, <2>1, <2>2
<1>12. stream' = stream
  BY DEF stream
<1>13. CASE field' = "bad"
  <2>1. ASSUME NEW r \in sent.request, Proper(r), Begins(r, stream)
        PROVE  FALSE
    <3>1. PICK n, k : n = Len(r.host) /\ k = HostOffset(r.atyp)
      OBVIOUS
    <3>2. Holds(s, r, n, k, c) /\ WellFormed(r)
      BY <1>1, <2>1, <3>1, RequestBytes, ClientsAssumption DEF Found, IndInv,
         TypeOK
    <3>3. r.credential \in Seq(Int) /\ Len(r.credential) = c
      <4>1. Byte \subseteq Int
        BY SMT DEF Byte
      <4> QED BY <1>1, <3>2, <4>1, SeqMonotonic DEF WellFormed
    <3>4. c <= Len(s)
      BY SMT, <1>3, <1>4, <1>5
    <3>5. SubSeq(s, 1, c) = r.credential
      BY <1>3, <1>4, <3>2, <3>3, <3>4, BeginningIs DEF Holds
    <3>6. credential = r.credential
      BY <1>7, <3>5
    <3>7. SubSeq(b, c + 1, c + 2) = CRLF
      BY <1>8, <3>2 DEF Holds
    <3>8. validCredential(credential) /\ credential \in Granted
      BY <2>1, <3>2, <3>6 DEF WellFormed, Proper
    <3> QED BY <1>9, <1>13, <3>7, <3>8
  <2> QED BY <1>11, <1>13, <2>1 DEF Advanced, DecodedInv
<1>14. CASE field' = "command"
  <2>1. CredentialRead'
    BY <1>1, <1>7, <1>8, <1>9, <1>11, <1>12, <1>14 DEF CredentialRead
  <2>2. DecodedInv'
    BY <1>14, <2>1 DEF DecodedInv
  <2>3. Start' = c + 2 /\ Size' = 2 /\ 0 < 2
    <3>1. 0 < 2
      BY SMT
    <3> QED BY <1>1, <1>14, <3>1 DEF Start, Size
  <2> QED BY <1>5, <1>11, <1>14, <2>2, <2>3 DEF Advanced
<1> QED BY <1>9, <1>13, <1>14

LEMMA CommandStep ==
    ASSUME IndInv, NEW b, Filled(b), field = "command", ReadCommand(b), sent' = sent
    PROVE  Advanced
<1>1. PICK c, s : c = credentialLength /\ s = stream
  OBVIOUS
<1>2. Start = c + 2 /\ Size = 2
  BY <1>1 DEF Start, Size
<1>3. /\ b \in Seq(Byte) /\ Len(b) = 2 /\ c \in Nat
      /\ consumed + 1 = (c + 2) + 2
      /\ \A j \in 1..2 : b[j] = s[(c + 2) + j]
  BY <1>1, <1>2, Lengths DEF Filled
<1>4. b[1] = s[c + 3] /\ b[2] = s[c + 4] /\ consumed + 1 = c + 4
  BY SMT, <1>3
<1>5. b[1] \in Byte /\ b[2] \in Byte
  <2>1. 1 \in 1..2 /\ 2 \in 1..2
    BY SMT
  <2> QED BY <1>3, <2>1, ElementOfSeq
<1>6. PICK g : g = got
  OBVIOUS
<1>7. got' = [g EXCEPT !.command = b[1], !.atyp = b[2], !.length = AddressLength(b[2])]
  BY <1>6 DEF ReadCommand
<1>8. g \in Fields
  BY <1>6 DEF IndInv, TypeOK
<1>9. AddressLength(b[2]) \in Nat /\ AddressLength(b[2]) > 0
  BY Lengths
<1>10. /\ got' \in Fields
       /\ got'.credential = g.credential /\ got'.command = b[1] /\ got'.atyp = b[2]
       /\ got'.length = AddressLength(b[2])
  <2>1. got' \in Fields
    <3>1. PICK l : l = AddressLength(b[2])
      OBVIOUS
    <3>2. l \in Nat
      BY <1>9, <3>1
    <3>3. b \in Seq(Byte)
      BY <1>3
    <3> QED BY <1>5, <1>7, <1>8, <3>1, <3>2, <3>3, Reading
  <2>2. g = [credential |-> g.credential, command |-> g.command, atyp |-> g.atyp,
             length |-> g.length, host |-> g.host, port |-> g.port]
    BY <1>8 DEF Fields
  <2> QED BY <1>7, <2>1, <2>2
<1>11. stream' = stream
  BY DEF stream
<1>12. addressDomain \notin {addressIPv4, addressIPv6}
  BY SMT DEF addressDomain, addressIPv4, addressIPv6
<1>13. field' = IF b[1] \notin {commandConnect, commandUDPAssociate} THEN "bad"
                ELSE CASE b[2] = addressDomain -> "length"
                       [] b[2] \in {addressIPv4, addressIPv6} -> "host"
                       [] OTHER -> "bad"
  BY DEF ReadCommand
<1>14. CASE b[1] \in {commandConnect, commandUDPAssociate}
            /\ b[2] \in {addressIPv4, addressDomain, addressIPv6}
  <2>1. field' = IF b[2] = addressDomain THEN "length" ELSE "host"
    <3>1. CASE b[2] = addressDomain
      BY <1>12, <1>13, <1>14, <3>1
    <3>2. CASE b[2] # addressDomain
      BY <1>13, <1>14, <3>2
    <3> QED BY <3>1, <3>2
  <2>2. CredentialRead'
    BY <1>6, <1>10, <1>11 DEF IndInv, DecodedInv, CredentialRead
  <2>3. CommandRead'
    BY <1>1, <1>4, <1>10, <1>11, <1>14 DEF CommandRead
  <2>4. field' = "host" => LengthRead'
    BY <1>9, <1>10, <2>1 DEF LengthRead
  <2>5. DecodedInv'
    BY <1>10, <2>1, <2>2, <2>3, <2>4 DEF DecodedInv
  <2>6. Start' = c + 4
    <3>1. b[2] # addressDomain => HostOffset(b[2]) = c + 4
      BY <1>1, Lengths
    <3> QED BY <1>1, <1>10, <2>1, <3>1 DEF Start
  <2>7. 0 < Size'
    <3>1. CASE field' = "length"
      <4>1. 0 < 1
        BY SMT
      <4> QED BY <3>1, <4>1 DEF Size
    <3>2. CASE field' = "host"
      <4>1. Size' = AddressLength(b[2])
        BY <1>10, <3>2 DEF Size
      <4>2. PICK l : l = AddressLength(b[2])
        OBVIOUS
      <4>3. 0 < l
        BY SMT, <1>9, <4>2
      <4> QED BY <4>1, <4>2, <4>3
    <3> QED BY <2>1, <3>1, <3>2
  <2> QED BY <1>4, <1>10, <2>1, <2>5, <2>6, <2>7 DEF Advanced
<1>15. CASE ~(b[1] \in {commandConnect, commandUDPAssociate}
              /\ b[2] \in {addressIPv4, addressDomain, addressIPv6})
  <2>1. field' = "bad"
    <3>1. CASE b[1] \notin {commandConnect, commandUDPAssociate}
      BY <1>13, <3>1
    <3>2. CASE b[1] \in {commandConnect, commandUDPAssociate}
      BY <1>13, <1>15, <3>2
    <3> QED BY <3>1, <3>2
  <2>2. ASSUME NEW r \in sent.request, Proper(r), Begins(r, stream)
        PROVE  FALSE
    <3>1. PICK n, k : n = Len(r.host) /\ k = HostOffset(r.atyp)
      OBVIOUS
    <3>2. Holds(s, r, n, k, c) /\ WellFormed(r)
      BY <1>1, <2>2, <3>1, RequestBytes, ClientsAssumption DEF Found, IndInv,
         TypeOK
    <3>3. b[1] = r.command /\ b[2] = r.atyp
      BY <1>4, <3>2 DEF Holds
    <3> QED BY <1>15, <2>2, <3>2, <3>3 DEF Proper, WellFormed
  <2> QED BY <1>10, <2>1, <2>2 DEF Advanced, DecodedInv
<1> QED BY <1>14, <1>15

LEMMA LengthStep ==
    ASSUME IndInv, NEW b, Filled(b), field = "length", ReadLength(b), sent' = sent
    PROVE  Advanced
<1>1. PICK c, s : c = credentialLength /\ s = stream
  OBVIOUS
<1>2. Start = c + 4 /\ Size = 1
  BY <1>1 DEF Start, Size
<1>3. /\ b \in Seq(Byte) /\ Len(b) = 1 /\ c \in Nat
      /\ consumed + 1 = (c + 4) + 1
      /\ \A j \in 1..1 : b[j] = s[(c + 4) + j]
  BY <1>1, <1>2, Lengths DEF Filled
<1>4. b[1] = s[c + 5] /\ consumed + 1 = c + 5
  BY SMT, <1>3
<1>5. b[1] \in Nat
  <2>1. 1 \in 1..1 /\ Byte \subseteq Nat
    BY SMT DEF Byte
  <2> QED BY <1>3, <2>1, ElementOfSeq
<1>6. PICK g : g = got
  OBVIOUS
<1>7. got' = [g EXCEPT !.length = b[1]] /\ field' = IF b[1] = 0 THEN "bad" ELSE "host"
  BY <1>6 DEF ReadLength
<1>8. g \in Fields
  BY <1>6 DEF IndInv, TypeOK
<1>9. /\ got' \in Fields
      /\ got'.credential = g.credential /\ got'.command = g.command /\ got'.atyp = g.atyp
      /\ got'.length = b[1]
  <2>1. got' \in Fields
    <3>1. 0 \in Byte /\ b \in Seq(Byte)
      BY <1>3, SMT DEF Byte
    <3> QED BY <1>5, <1>7, <1>8, <3>1, Reading
  <2>2. g = [credential |-> g.credential, command |-> g.command, atyp |-> g.atyp,
             length |-> g.length, host |-> g.host, port |-> g.port]
    BY <1>8 DEF Fields
  <2> QED BY <1>7, <2>1, <2>2
<1>10. stream' = stream
  BY DEF stream
<1>11. g.atyp = addressDomain
  BY <1>6 DEF IndInv, DecodedInv
<1>12. CASE b[1] = 0
  <2>1. ASSUME NEW r \in sent.request, Proper(r), Begins(r, stream)
        PROVE  FALSE
    <3>1. PICK n, k : n = Len(r.host) /\ k = HostOffset(r.atyp)
      OBVIOUS
    <3>2. Found(r, n, k, c)
      BY <1>1, <2>1, <3>1, RequestBytes DEF IndInv
    <3>3. r.atyp = addressDomain
      BY <1>1, <1>6, <1>11, <2>1, <3>1, Agreement DEF IndInv
    <3>4. b[1] = n /\ n > 0 /\ n \in Nat
      BY <1>1, <1>4, <3>2, <3>3 DEF Found, Holds
    <3> QED BY SMT, <1>12, <3>4
  <2> QED BY <1>7, <1>9, <1>12, <2>1 DEF Advanced, DecodedInv
<1>13. CASE b[1] # 0
  <2>1. field' = "host"
    BY <1>7, <1>13
  <2>2. CredentialRead' /\ CommandRead'
    BY <1>6, <1>9, <1>10 DEF IndInv, DecodedInv, CredentialRead, CommandRead
  <2>3. b[1] > 0 /\ 0 < b[1]
    BY SMT, <1>5, <1>13
  <2>4. LengthRead'
    BY <1>1, <1>4, <1>9, <1>10, <1>11, <2>3 DEF LengthRead
  <2>5. DecodedInv'
    BY <2>1, <2>2, <2>4 DEF DecodedInv
  <2>6. Start' = c + 5 /\ Size' = b[1]
    BY <1>1, <1>9, <1>11, <2>1, Lengths DEF Start, Size
  <2> QED BY <1>4, <1>9, <2>1, <2>3, <2>5, <2>6 DEF Advanced
<1> QED BY <1>12, <1>13

LEMMA HostStep ==
    ASSUME IndInv, NEW b, Filled(b), field = "host", ReadHost(b), sent' = sent
    PROVE  Advanced
<1>1. PICK k, n, s : k = HostOffset(got.atyp) /\ n = got.length /\ s = stream
  OBVIOUS
<1>2. Start = k /\ Size = n
  BY <1>1 DEF Start, Size
<1>3. /\ b \in Seq(Byte) /\ b \in Seq(Int) /\ Len(b) = n /\ k \in Nat /\ n \in Nat
      /\ consumed + 1 = k + n /\ k + n <= Len(s)
      /\ \A j \in 1..n : s[k + j] = b[j]
  BY <1>1, <1>2 DEF Filled
<1>4. s \in Seq(Int)
  BY <1>1, StreamBytes DEF IndInv
<1>5. SubSeq(s, k + 1, k + n) = b
  BY <1>3, <1>4, PartIs
<1>6. PICK g : g = got
  OBVIOUS
<1>7. got' = [g EXCEPT !.host = b] /\ field' = "suffix"
  BY <1>6 DEF ReadHost
<1>8. g \in Fields
  BY <1>6 DEF IndInv, TypeOK
<1>9. /\ got' \in Fields
      /\ got'.credential = g.credential /\ got'.command = g.command /\ got'.atyp = g.atyp
      /\ got'.length = g.length /\ got'.host = b
  <2>1. got' \in Fields
    <3>1. 0 \in Byte /\ 0 \in Nat
      BY SMT DEF Byte
    <3> QED BY <1>3, <1>7, <1>8, <3>1, Reading
  <2>2. g = [credential |-> g.credential, command |-> g.command, atyp |-> g.atyp,
             length |-> g.length, host |-> g.host, port |-> g.port]
    BY <1>8 DEF Fields
  <2> QED BY <1>7, <2>1, <2>2
<1>10. stream' = stream
  BY DEF stream
<1>11. CredentialRead' /\ CommandRead' /\ LengthRead'
  BY <1>6, <1>9, <1>10 DEF IndInv, DecodedInv, CredentialRead, CommandRead,
     LengthRead
<1>12. HostRead'
  BY <1>1, <1>5, <1>6, <1>9, <1>10 DEF HostRead
<1>13. DecodedInv'
  BY <1>7, <1>11, <1>12 DEF DecodedInv
<1>14. Start' = k + n /\ Size' = 4 /\ 0 < 4
  <2>1. 0 < 4
    BY SMT
  <2> QED BY <1>1, <1>6, <1>7, <1>9, <2>1 DEF Start, Size
<1> QED
  BY <1>3, <1>7, <1>9, <1>13, <1>14 DEF Advanced

\* Two bytes are a port, and are its bytes.
LEMMA TwoBytes ==
    ASSUME NEW x \in Byte, NEW y \in Byte
    PROVE  /\ Number(x, y) \in Port /\ Number(x, y) \in Nat
           /\ High(Number(x, y)) = x /\ Low(Number(x, y)) = y
<1>1. PICK n : n = Number(x, y)
  OBVIOUS
<1>2. x \in Nat /\ y \in Nat /\ x <= 255 /\ y <= 255 /\ n = 256 * x + y
  BY SMT, <1>1 DEF Byte, Number
<1>3. n \in Nat /\ n \in Port
  BY SMT, <1>2 DEF Port
<1>4. PICK q, r : q = n \div 256 /\ r = n % 256
  OBVIOUS
<1>5. q \in Int /\ r \in Int /\ n = 256 * q + r /\ 0 <= r /\ r <= 255
  BY SMT, <1>3, <1>4
<1>6. q = x /\ r = y
  BY SMT, <1>2, <1>5
<1> QED
  BY <1>1, <1>3, <1>4, <1>6 DEF High, Low

LEMMA SuffixStep ==
    ASSUME IndInv, NEW b, Filled(b), field = "suffix", ReadSuffix(b), sent' = sent
    PROVE  Advanced
<1>1. PICK k, n, m, s : /\ k = HostOffset(got.atyp) /\ n = got.length /\ m = k + n
                        /\ s = stream
  OBVIOUS
<1>2. Start = m /\ Size = 4
  BY <1>1 DEF Start, Size
<1>3. /\ b \in Seq(Byte) /\ b \in Seq(Int) /\ Len(b) = 4 /\ m \in Nat
      /\ consumed + 1 = m + 4
      /\ \A j \in 1..4 : b[j] = s[m + j]
  BY <1>1, <1>2 DEF Filled
<1>4. 1 \in 1..4 /\ 2 \in 1..4 /\ 3 \in 1..4 /\ 4 \in 1..4
  BY SMT
<1>5. b[1] = s[m + 1] /\ b[2] = s[m + 2] /\ b[3] = s[m + 3] /\ b[4] = s[m + 4]
  BY <1>3, <1>4
<1>6. PICK p : p = Number(b[1], b[2])
  OBVIOUS
<1>7. p \in Nat
  <2>1. b[1] \in Byte /\ b[2] \in Byte
    BY <1>3, <1>4, ElementOfSeq
  <2> QED BY <1>6, <2>1, TwoBytes
<1>8. SubSeq(b, 3, 4) = CRLF <=> s[m + 3] = 13 /\ s[m + 4] = 10
  <2>1. PICK i : i = 3
    OBVIOUS
  <2>2. i \in Nat /\ i > 0 /\ i + 1 = 4 /\ 4 <= 4
    BY SMT, <2>1
  <2>3. i + 1 <= Len(b)
    BY <1>3, <2>2
  <2>4. SubSeq(b, i, i + 1) = CRLF <=> b[i] = 13 /\ b[i + 1] = 10
    BY <1>3, <2>2, <2>3, EndOfLine
  <2> QED BY <1>5, <2>1, <2>2, <2>4
<1>9. PICK g : g = got
  OBVIOUS
<1>10. /\ got' = [g EXCEPT !.port = p]
       /\ field' = IF SubSeq(b, 3, 4) = CRLF THEN "done" ELSE "bad"
  BY <1>6, <1>9 DEF ReadSuffix, Uint16, Number
<1>11. g \in Fields
  BY <1>9 DEF IndInv, TypeOK
<1>12. /\ got' \in Fields
       /\ got'.credential = g.credential /\ got'.command = g.command /\ got'.atyp = g.atyp
       /\ got'.length = g.length /\ got'.host = g.host /\ got'.port = p
  <2>1. got' \in Fields
    <3>1. 0 \in Byte
      BY SMT DEF Byte
    <3>2. b \in Seq(Byte)
      BY <1>3
    <3> QED BY <1>7, <1>10, <1>11, <3>1, <3>2, Reading
  <2>2. g = [credential |-> g.credential, command |-> g.command, atyp |-> g.atyp,
             length |-> g.length, host |-> g.host, port |-> g.port]
    BY <1>11 DEF Fields
  <2> QED BY <1>10, <2>1, <2>2
<1>13. stream' = stream
  BY DEF stream
<1>14. CASE field' = "bad"
  <2>1. ASSUME NEW r \in sent.request, Proper(r), Begins(r, stream)
        PROVE  FALSE
    <3>1. PICK nn, kk, c : nn = Len(r.host) /\ kk = HostOffset(r.atyp) /\ c = credentialLength
      OBVIOUS
    <3>2. Found(r, nn, kk, c)
      BY <2>1, <3>1, RequestBytes DEF IndInv
    <3>3. got.atyp = r.atyp /\ got.length = nn
      BY <2>1, <3>1, Agreement DEF IndInv
    <3>4. kk + nn = m
      BY <1>1, <3>1, <3>3
    <3>5. s[m + 3] = 13 /\ s[m + 4] = 10
      BY <1>1, <3>2, <3>4 DEF Found, Holds
    <3> QED BY <1>8, <1>10, <1>14, <3>5
  <2> QED BY <1>12, <1>14, <2>1 DEF Advanced, DecodedInv
<1>15. CASE field' = "done"
  <2>1. CredentialRead' /\ CommandRead' /\ LengthRead' /\ HostRead'
    BY <1>9, <1>12, <1>13
       DEF IndInv, DecodedInv, CredentialRead, CommandRead, LengthRead, HostRead
  <2>2. SuffixRead'
    <3>1. SubSeq(b, 3, 4) = CRLF
      BY <1>10, <1>15
    <3>2. s[m + 3] = 13 /\ s[m + 4] = 10 /\ p = Number(s[m + 1], s[m + 2])
      BY <1>5, <1>6, <1>8, <3>1
    <3> QED BY <1>1, <1>9, <1>12, <1>13, <3>2 DEF SuffixRead
  <2>3. DecodedInv'
    BY <1>15, <2>1, <2>2 DEF DecodedInv
  <2>4. Start' = m + 4
    BY <1>1, <1>9, <1>12, <1>15 DEF Start
  <2> QED BY <1>3, <1>12, <1>15, <2>3, <2>4 DEF Advanced
<1> QED BY <1>10, <1>14, <1>15

\* One more byte of a field.
OneMore(b, l, o) ==
    /\ b \in Seq(Byte) /\ b \in Seq(Int) /\ Len(b) = l + 1
    /\ \A j \in 1..l + 1 : b[j] = stream[o + j]

LEMMA AnotherByte ==
    ASSUME NEW q \in Seq(Byte), NEW s \in Seq(Byte), s = stream,
           NEW o \in Nat, NEW l \in Nat, l = Len(q),
           o + l < Len(s), \A j \in 1..l : q[j] = s[o + j]
    PROVE  OneMore(Append(q, s[o + l + 1]), l, o)
<1>1. s[o + l + 1] \in Byte
  BY SMT
<1>2. PICK x : x = s[o + l + 1]
  OBVIOUS
<1>3. /\ Append(q, x) \in Seq(Byte) /\ Len(Append(q, x)) = l + 1
      /\ \A j \in 1..l + 1 : Append(q, x)[j] = IF j = l + 1 THEN x ELSE q[j]
  BY SMT, <1>1, <1>2
<1>4. \A j \in 1..l + 1 : Append(q, x)[j] = s[o + j]
  BY SMT, <1>2, <1>3
<1>5. Byte \subseteq Int
  BY SMT DEF Byte
<1> QED BY <1>2, <1>3, <1>4, <1>5, SeqMonotonic DEF OneMore

\* The TeeReader keeps the byte too.
LEMMA PrefixGrows ==
    ASSUME NEW s \in Seq(Byte), NEW p \in Seq(Byte), NEW i \in Nat, i < Len(s),
           p = SubSeq(s, 1, i), Len(p) = i
    PROVE  /\ Append(p, s[i + 1]) \in Seq(Byte) /\ Len(Append(p, s[i + 1])) = i + 1
           /\ Append(p, s[i + 1]) = SubSeq(s, 1, Len(Append(p, s[i + 1])))
<1>1. /\ s[i + 1] \in Byte /\ Append(p, s[i + 1]) \in Seq(Byte)
      /\ Len(Append(p, s[i + 1])) = i + 1
  BY SMT
<1>2. Append(p, s[i + 1]) = SubSeq(s, 1, i + 1)
  BY SMT
<1> QED BY <1>1, <1>2

LEMMA ReadStep == IndInv /\ Read => IndInv'
<1> SUFFICES ASSUME IndInv, Read PROVE IndInv'
  OBVIOUS
<1>1. PICK s, o, l, z, b : /\ s = stream /\ o = Start /\ l = Len(buf) /\ z = Size
                           /\ b = Append(buf, s[consumed + 1])
  OBVIOUS
<1>2. /\ place = "header" /\ field \notin {"done", "bad"} /\ consumed < Len(s)
      /\ prefix' = IF fallback THEN Append(prefix, s[consumed + 1]) ELSE prefix
      /\ consumed' = consumed + 1
      /\ sent' = sent /\ fallback' = fallback /\ late' = late /\ place' = "header"
      /\ out' = out
  BY <1>1 DEF Read, InHeader, Tee
<1>3. IF Len(b) < z THEN buf' = b /\ field' = field /\ got' = got
                    ELSE buf' = <<>> /\ FieldRead(b)
  BY <1>1 DEF Read
<1>4. stream' = stream
  BY <1>2 DEF stream
<1>5. /\ s \in Seq(Byte) /\ s \in Seq(Int) /\ Len(s) \in Nat
      /\ consumed \in Nat /\ consumed <= Len(s)
  BY <1>1, StreamBytes DEF IndInv
<1>6. /\ buf \in Seq(Byte) /\ prefix \in Seq(Byte) /\ out \in Seq(Byte) /\ got \in Fields
      /\ got.length \in Nat
  BY DEF IndInv, TypeOK, Fields
<1>7. l \in Nat /\ o \in Nat /\ z \in Nat
  <2>1. l \in Nat
    BY <1>1, <1>6, LenProperties
  <2>2. credentialLength \in Nat /\ HostOffset(got.atyp) \in Nat
    BY Lengths
  <2>3. /\ credentialLength + 2 \in Nat /\ credentialLength + 4 \in Nat
        /\ HostOffset(got.atyp) + got.length \in Nat
        /\ {0, 1, 2, 4} \subseteq Nat
    BY SMT, <1>6, <2>2
  <2>4. field \in {"credential", "command", "length", "host", "suffix"}
    BY <1>2 DEF IndInv, TypeOK
  <2> QED BY <1>1, <1>6, <2>1, <2>2, <2>3, <2>4 DEF Start, Size
<1>8. consumed = o + l /\ l < z /\ \A j \in 1..l : buf[j] = s[o + j]
  BY <1>1, <1>2 DEF IndInv, OffsetInv
<1>9. o + l < Len(s) /\ consumed + 1 = o + l + 1 /\ consumed + 1 \in 0..Len(s)
      /\ consumed + 1 <= Len(s) /\ o + l + 1 = o + (l + 1)
  BY SMT, <1>2, <1>5, <1>7, <1>8
<1>10. OneMore(b, l, o)
  BY <1>1, <1>5, <1>6, <1>7, <1>8, <1>9, AnotherByte
<1>11. /\ prefix' \in Seq(Byte)
       /\ fallback => prefix' = SubSeq(s, 1, Len(prefix')) /\ Len(prefix') = consumed + 1
  <2>1. CASE ~fallback
    BY <1>2, <1>6, <2>1
  <2>2. CASE fallback
    <3>1. prefix = SubSeq(s, 1, consumed) /\ Len(prefix) = consumed
      BY <1>1, <1>2, <2>2 DEF IndInv, PrefixInv
    <3>2. prefix' = Append(prefix, s[consumed + 1])
      BY <1>2, <2>2
    <3>3. PICK i : i = consumed
      OBVIOUS
    <3>4. i \in Nat /\ i < Len(s)
      BY <1>2, <1>5, <3>3
    <3>5. PICK p : p = prefix
      OBVIOUS
    <3>6. p \in Seq(Byte) /\ p = SubSeq(s, 1, i) /\ Len(p) = i
      BY <1>6, <3>1, <3>3, <3>5
    <3>7. /\ Append(p, s[i + 1]) \in Seq(Byte) /\ Len(Append(p, s[i + 1])) = i + 1
          /\ Append(p, s[i + 1]) = SubSeq(s, 1, Len(Append(p, s[i + 1])))
      BY <1>5, <3>4, <3>6, PrefixGrows
    <3> QED BY <3>2, <3>3, <3>5, <3>7
  <2> QED BY <2>1, <2>2
<1>12. PrefixInv' /\ ServedInv' /\ ClosedInv'
  <2>1. out = <<>>
    BY <1>2 DEF IndInv, PrefixInv
  <2>2. consumed + 1 <= consumed + 1
    BY SMT, <1>5
  <2> QED BY <1>1, <1>2, <1>4, <1>11, <2>1, <2>2
          DEF PrefixInv, ServedInv, ClosedInv, Website, Authenticated
<1>13. CASE l + 1 < z
  <2>1. Len(b) = l + 1 /\ b \in Seq(Byte) /\ \A j \in 1..l + 1 : b[j] = s[o + j]
    BY <1>1, <1>10 DEF OneMore
  <2>2. buf' = b /\ field' = field /\ got' = got
    BY <1>3, <1>13, <2>1
  <2>3. TypeOK'
    BY <1>1, <1>2, <1>4, <1>9, <1>11, <2>1, <2>2 DEF IndInv, TypeOK
  <2>4. DecodedInv'
    BY <1>4, <2>2 DEF IndInv, DecodedInv, CredentialRead, CommandRead,
       LengthRead, HostRead, SuffixRead
  <2>5. Start' = Start /\ Size' = Size
    BY <2>2 DEF Start, Size
  <2>6. OffsetInv'
    BY <1>1, <1>2, <1>4, <1>9, <1>13, <2>1, <2>2, <2>5 DEF OffsetInv
  <2>7. TrackInv'
    BY <1>2, <2>2 DEF TrackInv
  <2> QED BY <1>12, <2>3, <2>4, <2>6, <2>7 DEF IndInv
<1>14. CASE ~(l + 1 < z)
  <2>1. z = l + 1
    BY SMT, <1>7, <1>8, <1>14
  <2>2. buf' = <<>> /\ FieldRead(b)
    <3>1. Len(b) = l + 1
      BY <1>10 DEF OneMore
    <3> QED BY <1>3, <1>14, <3>1
  <2>3. Filled(b)
    BY <1>1, <1>7, <1>9, <1>10, <2>1 DEF OneMore, Filled
  <2>4. Advanced
    BY <1>2, <2>2, <2>3, CredentialStep, CommandStep, LengthStep, HostStep,
       SuffixStep DEF FieldRead
  <2>5. TypeOK'
    <3>1. <<>> \in Seq(Byte)
      BY SMT
    <3> QED BY <1>1, <1>2, <1>4, <1>9, <1>11, <2>2, <2>4, <3>1 DEF IndInv, TypeOK, Advanced
  <2>6. OffsetInv'
    <3>1. Len(<<>>) = 0 /\ 1..0 = {} /\ consumed + 1 = (consumed + 1) + 0
          /\ consumed + 1 <= consumed + 1
      BY SMT, <1>5
    <3> QED BY <1>2, <2>2, <2>4, <3>1 DEF OffsetInv, Advanced
  <2>7. TrackInv'
    BY <1>2, <1>4, <2>4 DEF TrackInv, Advanced
  <2>8. DecodedInv'
    BY <2>4 DEF Advanced
  <2> QED BY <1>12, <2>5, <2>6, <2>7, <2>8 DEF IndInv
<1> QED BY <1>13, <1>14

\* Stuttering.
LEMMA StutterStep == IndInv /\ UNCHANGED vars => IndInv'
<1> SUFFICES ASSUME IndInv, UNCHANGED vars PROVE IndInv'
  OBVIOUS
<1> USE DEF vars, reading
<1>1. stream' = stream
  BY DEF stream
<1>2. TypeOK'
  BY <1>1 DEF IndInv, TypeOK
<1>3. DecodedInv'
  BY <1>1 DEF IndInv, DecodedInv, CredentialRead, CommandRead, LengthRead,
     HostRead, SuffixRead
<1>4. Start' = Start /\ Size' = Size /\ Authenticated' = Authenticated /\ Website' = Website
      /\ Serve' = Serve /\ InvalidTarget' = InvalidTarget
  BY DEF Start, Size, Authenticated, Website, Serve, InvalidTarget
<1>5. OffsetInv' /\ PrefixInv'
  BY <1>1, <1>4 DEF IndInv, OffsetInv, PrefixInv
<1>6. ServedInv' /\ TrackInv' /\ ClosedInv'
  BY <1>1, <1>4 DEF IndInv, ServedInv, TrackInv, ClosedInv
<1> QED BY <1>2, <1>3, <1>5, <1>6 DEF IndInv

\* The invariant holds in every state: what the header parsers read are the bytes of
\* the stream at their places in a header, and the bytes they keep for the website
\* are those they consumed.
THEOREM Invariance == Spec => []IndInv
<1>1. ASSUME IndInv, [Next]_vars PROVE IndInv'
  BY <1>1, ReadStep, TruncatedStep, DeadlineStep, ClassifyStep, ReplayStep,
     CopyStep, PacketStep, StutterStep DEF Next
<1> QED BY <1>1, InitInv, PTL DEF Spec
----------------------------------------------------------------------------
\* The request that was read is one the stream begins with.
LEMMA RequestRead ==
    ASSUME IndInv, field = "done"
    PROVE  WellFormed(got) /\ Begins(got, stream) /\ Len(Header(got)) = Start /\ Start \in Nat
<1>1. PICK c, s, n, k : /\ c = credentialLength /\ s = stream /\ n = Len(got.host)
                        /\ k = HostOffset(got.atyp)
  OBVIOUS
<1>2. CredentialRead /\ CommandRead /\ LengthRead /\ HostRead /\ SuffixRead
  BY DEF IndInv, DecodedInv
<1>3. got \in Fields /\ got.length \in Nat
  BY DEF IndInv, TypeOK, Fields
<1>4. /\ s \in Seq(Byte) /\ s \in Seq(Int) /\ Len(s) \in Nat
      /\ \A i \in 1..Len(s) : s[i] \in Byte
  BY <1>1, StreamBytes DEF IndInv
<1>5. PICK m : m = got.length
  OBVIOUS
<1>6. c \in Nat /\ c > 0 /\ k \in Nat /\ (k = c + 4 \/ k = c + 5) /\ m \in Nat /\ m > 0
  BY <1>1, <1>2, <1>3, <1>5, Lengths DEF LengthRead
<1>7. Start = k + m + 4 /\ k + m + 4 <= Len(s)
  <2>1. Start = k + m + 4
    BY <1>1, <1>5 DEF Start
  <2>2. Start <= consumed /\ consumed <= Len(s) /\ consumed \in Nat
    BY <1>1, StreamBytes DEF IndInv, OffsetInv
  <2>3. k + m + 4 <= consumed
    BY <2>1, <2>2
  <2>4. k + m + 4 <= Len(s)
    BY SMT, <1>4, <1>6, <2>2, <2>3
  <2> QED BY <2>1, <2>4
<1>8. /\ got.credential = SubSeq(s, 1, c) /\ got.host = SubSeq(s, k + 1, k + m)
  BY <1>1, <1>2, <1>5 DEF CredentialRead, HostRead
<1>9. /\ Len(got.credential) = c /\ \A i \in 1..c : s[i] = got.credential[i]
      /\ Len(got.host) = m /\ \A i \in 1..m : s[k + i] = got.host[i]
  BY SMT, <1>4, <1>6, <1>7, <1>8
<1>10. n = m
  BY <1>1, <1>9
<1>11. s[k + n + 1] \in Byte /\ s[k + n + 2] \in Byte
  <2>1. k + m + 1 \in 1..Len(s) /\ k + m + 2 \in 1..Len(s)
    BY SMT, <1>4, <1>6, <1>7
  <2> QED BY <1>4, <1>10, <2>1
<1>12. /\ got.port = Number(s[k + n + 1], s[k + n + 2])
       /\ s[k + n + 3] = 13 /\ s[k + n + 4] = 10
  BY <1>1, <1>2, <1>5, <1>10 DEF SuffixRead
<1>13. s[k + n + 1] = High(got.port) /\ s[k + n + 2] = Low(got.port) /\ got.port \in Port
  BY <1>11, <1>12, TwoBytes
<1>14. WellFormed(got)
  <2>1. got.host # <<>>
    <3>1. Len(<<>>) = 0
      BY SMT
    <3>2. m # 0
      BY SMT, <1>6
    <3> QED BY <1>9, <3>1, <3>2
  <2>2. got.atyp # addressDomain =>
           got.atyp \in {addressIPv4, addressIPv6} /\ Len(got.host) = AddressLength(got.atyp)
    BY <1>2, <1>5, <1>9 DEF CommandRead, LengthRead
  <2>3. validCredential(got.credential) /\ Len(got.credential) = credentialLength
    BY <1>1, <1>2, <1>9 DEF CredentialRead
  <2>4. got.credential \in Seq(Byte) /\ got.command \in Byte /\ got.host \in Seq(Byte)
    BY <1>3 DEF Fields
  <2> QED BY <1>13, <2>1, <2>2, <2>3, <2>4 DEF WellFormed
<1>15. Holds(s, got, n, k, c)
  <2>1. c + 4 + 1 = c + 5
    BY SMT, <1>6
  <2>2. \A i \in 1..n : s[k + i] = got.host[i]
    BY <1>9, <1>10
  <2> QED BY <1>1, <1>2, <1>5, <1>9, <1>10, <1>12, <1>13, <2>2
          DEF Holds, CredentialRead, CommandRead, LengthRead
<1>16. PICK h : h = Header(got)
  OBVIOUS
<1>161. h \in Seq(Int) /\ Len(h) = k + n + 4 /\ Holds(h, got, n, k, c)
  <2>1. Header(got) \in Seq(Int) /\ Len(Header(got)) = k + n + 4 /\ Shaped(got, n, k, c)
    BY <1>1, <1>14, HeaderShape
  <2> QED BY <1>16, <2>1 DEF Shaped
<1>17. n \in Nat /\ c \in Nat /\ k \in Nat
  BY <1>6, <1>10
<1>18. Agree(s, h, k + n + 4)
  <2>1. PICK r : r = got
    OBVIOUS
  <2>2. /\ Holds(s, r, n, k, c) /\ Holds(h, r, n, k, c)
        /\ k = HostOffset(r.atyp) /\ c = credentialLength
    BY <1>1, <1>15, <1>161, <2>1
  <2> QED BY <1>17, <2>2, HoldsSame
<1>19. \A i \in 1..k + n + 4 : s[i] = h[i]
  BY <1>18 DEF Agree
<1>20. Begins(got, stream)
  <2>1. s \in Seq(Int)
    BY <1>4
  <2>2. Len(h) <= Len(s) /\ \A i \in 1..Len(h) : s[i] = h[i]
    BY <1>7, <1>10, <1>161, <1>19
  <2> QED BY <1>1, <1>16, <1>161, <2>1, <2>2, BeginsPointwise
<1>21. k + n + 4 \in Nat
  BY SMT, <1>17
<1> QED BY <1>7, <1>10, <1>14, <1>16, <1>161, <1>20, <1>21
----------------------------------------------------------------------------
\* The client's request and the one that was read are the same.
LEMMA OneRequest ==
    ASSUME IndInv, field = "done", NEW r \in sent.request, Begins(r, stream)
    PROVE  SameRequest(got, r)
<1>1. PICK n, k, c : n = Len(r.host) /\ k = HostOffset(r.atyp) /\ c = credentialLength
  OBVIOUS
<1>2. TypeOK /\ DecodedInv
  BY DEF IndInv
<1>3. /\ got.credential = r.credential /\ got.command = r.command /\ got.atyp = r.atyp
      /\ got.host = r.host /\ got.port = r.port
  BY <1>1, <1>2, Agreement
<1> QED BY <1>3 DEF SameRequest

LEMMA WebsiteStream == IndInv => WebsiteSeesStream
<1> SUFFICES ASSUME IndInv, Website PROVE WebsiteSeesStream
  BY DEF WebsiteSeesStream
<1>1. PICK s, w : s = stream /\ w = out
  OBVIOUS
<1>2. /\ s \in Seq(Byte) /\ Len(s) \in Nat /\ consumed \in Nat /\ consumed <= Len(s)
      /\ w \in Seq(Byte)
  BY <1>1, StreamBytes DEF IndInv, TypeOK
<1>3. CASE place = "replay"
  <2>1. w = <<>>
    BY <1>1, <1>3 DEF IndInv, PrefixInv
  <2>2. Len(w) <= Len(s) /\ SubSeq(s, 1, Len(w)) = w
    BY SMT, <1>2, <2>1
  <2> QED BY <1>1, <1>3, <2>2 DEF WebsiteSeesStream, HasPrefix
<1>4. CASE place # "replay"
  <2>1. w = SubSeq(s, 1, consumed) /\ (place = "ended" => consumed = Len(s))
    BY <1>1, <1>4 DEF IndInv, PrefixInv
  <2>2. Len(w) = consumed /\ SubSeq(s, 1, Len(w)) = w
    BY SMT, <1>2, <2>1
  <2>3. consumed = Len(s) => w = s
    BY SMT, <1>2, <2>1
  <2> QED BY <1>1, <1>2, <2>1, <2>2, <2>3 DEF WebsiteSeesStream, HasPrefix
<1> QED BY <1>3, <1>4

\* A header and all that follows it are the stream.
LEMMA HeaderAndRest ==
    ASSUME NEW s \in Seq(Int), NEW h \in Seq(Int), Len(h) <= Len(s),
           SubSeq(s, 1, Len(h)) = h,
           NEW w \in Seq(Int), w = SubSeq(s, Len(h) + 1, Len(h) + Len(w)),
           Len(h) + Len(w) = Len(s)
    PROVE  h \o w = s
<1>1. PICK a, m, u : a = Len(h) /\ m = Len(w) /\ u = h \o w
  OBVIOUS
<1>2. a \in Nat /\ m \in Nat
  BY <1>1, LenProperties
<1>3. u \in Seq(Int) /\ Len(u) = a + m /\ (\A i \in 1..a : u[i] = h[i])
      /\ \A i \in 1..m : u[a + i] = w[i]
  <2>1. Joined(h, w, u, a, m)
    BY <1>1, <1>2, Concatenation
  <2> QED BY <2>1 DEF Joined
<1>4. \A i \in 1..a : h[i] = s[i]
  <2>1. h = SubSeq(s, 1, a) /\ a <= Len(s)
    BY <1>1
  <2> QED BY SMT, <1>2, <2>1
<1>5. \A i \in 1..m : w[i] = s[a + i]
  <2>1. w = SubSeq(s, a + 1, a + m) /\ a + m <= Len(s)
    BY SMT, <1>1
  <2> QED BY <1>2, <2>1, PartPlaces
<1>6. Len(s) = a + m
  BY <1>1
<1>7. \A i \in 1..a + m : u[i] = s[i]
  <2> SUFFICES ASSUME NEW i \in 1..a + m PROVE u[i] = s[i]
    OBVIOUS
  <2>1. i \in 1..a \/ (i - a \in 1..m /\ i = a + (i - a))
    BY SMT, <1>2
  <2> QED BY <1>3, <1>4, <1>5, <2>1
<1>8. u = s
  <2>1. a + m \in Nat
    BY SMT, <1>2
  <2> QED BY <1>3, <1>6, <1>7, <2>1, SeqEqual
<1> QED BY <1>1, <1>8

LEMMA PayloadStream == IndInv => PayloadPreserved
<1> SUFFICES ASSUME IndInv, place \in {"copy", "packets", "ended"}, ~Website
             PROVE  PayloadPreserved
  BY DEF PayloadPreserved
<1>1. Authenticated /\ field = "done" /\ got.credential \in Granted
  BY DEF IndInv, PrefixInv, Website, Authenticated
<1>2. WellFormed(got) /\ Begins(got, stream) /\ Len(Header(got)) = Start /\ Start \in Nat
  BY <1>1, RequestRead
<1>3. Proper(got)
  BY <1>1 DEF Proper, IndInv, DecodedInv, CommandRead
<1>4. /\ ~InvalidTarget /\ out = SubSeq(stream, Start + 1, Start + Len(out))
      /\ IF Serve = "copy" THEN consumed = Start + Len(out) ELSE out = <<>>
      /\ place = "ended" /\ Serve = "copy" => consumed = Len(stream)
  BY DEF IndInv, ServedInv
<1>5. ~TargetRefused(got)
  BY <1>4 DEF InvalidTarget, TargetRefused
<1>6. ASSUME place = "ended", got.command = commandConnect
      PROVE  Header(got) \o out = stream
  <2>1. commandConnect # commandUDPAssociate
    BY SMT DEF commandConnect, commandUDPAssociate
  <2>2. Serve = "copy"
    BY <1>6, <2>1 DEF Serve
  <2>3. PICK s, h, w : s = stream /\ h = Header(got) /\ w = out
    OBVIOUS
  <2>4. Len(h) + Len(w) = Len(s) /\ w = SubSeq(s, Len(h) + 1, Len(h) + Len(w))
    BY <1>2, <1>4, <1>6, <2>2, <2>3
  <2>5. Len(h) <= Len(s) /\ SubSeq(s, 1, Len(h)) = h
    BY <1>2, <2>3 DEF Begins, HasPrefix
  <2>6. s \in Seq(Int) /\ w \in Seq(Int)
    <3>1. Byte \subseteq Int
      BY SMT DEF Byte
    <3> QED BY <2>3, <3>1, StreamBytes, SeqMonotonic DEF IndInv, TypeOK
  <2>7. h \in Seq(Int)
    BY <1>2, <2>3, HeaderShape
  <2>8. h \o w = s
    BY <2>4, <2>5, <2>6, <2>7, HeaderAndRest
  <2> QED BY <2>3, <2>8
<1>7. out = SubSeq(stream, Len(Header(got)) + 1, Len(Header(got)) + Len(out))
  BY <1>2, <1>4
<1>8. \A r \in sent.request : Begins(r, stream) => SameRequest(got, r)
  BY <1>1, OneRequest
<1> QED BY <1>2, <1>3, <1>5, <1>6, <1>7, <1>8 DEF PayloadPreserved

\* Whatever the client sends and wherever the header parsers give up or finish, the
\* website gets the client's stream and the target what follows the header.
THEOREM StreamTheorem == Spec => []StreamPreserved
<1>1. IndInv => StreamPreserved
  BY WebsiteStream, PayloadStream DEF StreamPreserved
<1> QED BY <1>1, Invariance, PTL

\* What begins with a beginning.
LEMMA LongerPrefix ==
    ASSUME NEW s \in Seq(Byte), NEW p \in Seq(Byte), NEW h \in Seq(Int), NEW n \in Nat,
           n <= Len(s), Len(p) <= n, p = SubSeq(s, 1, Len(p)),
           Len(h) <= Len(p), SubSeq(p, 1, Len(h)) = h
    PROVE  Len(h) <= Len(s) /\ SubSeq(s, 1, Len(h)) = h
<1>1. PICK m, l : m = Len(p) /\ l = Len(h)
  OBVIOUS
<1>2. m \in Nat /\ l \in Nat /\ l <= m /\ m <= Len(s)
  BY SMT, <1>1
<1>3. SubSeq(SubSeq(s, 1, m), 1, l) = SubSeq(s, 1, l)
  BY SMT, <1>2
<1> QED BY SMT, <1>1, <1>2, <1>3

LEMMA Placed == IndInv => RightPlace
<1> SUFFICES ASSUME IndInv PROVE RightPlace
  OBVIOUS
<1>1. Website => /\ fallback /\ ~Authenticated /\ field \in {"done", "bad"}
                 /\ prefix = SubSeq(stream, 1, Len(prefix)) /\ Len(prefix) <= consumed
  BY DEF IndInv, PrefixInv, OffsetInv, Website
<1>2. ASSUME NEW r \in sent.request, Proper(r), Begins(r, stream), field = "done"
      PROVE  SameRequest(got, r) /\ Authenticated
  <2>1. SameRequest(got, r)
    BY <1>2, OneRequest
  <2> QED BY <1>2, <2>1 DEF SameRequest, Proper, Authenticated
<1>3. NeverFallsBack
  <2> SUFFICES ASSUME Website, NEW r \in sent.request, Proper(r), Begins(r, prefix)
               PROVE  FALSE
    BY DEF NeverFallsBack
  <2>1. PICK s, h, p : s = stream /\ h = Header(r) /\ p = prefix
    OBVIOUS
  <2>2. /\ s \in Seq(Byte) /\ Len(s) \in Nat /\ consumed \in Nat /\ consumed <= Len(s)
        /\ p \in Seq(Byte)
    BY <2>1, StreamBytes DEF IndInv, TypeOK
  <2>3. h \in Seq(Int)
    BY <2>1, HeaderShape, ClientsAssumption DEF IndInv, TypeOK
  <2>4. /\ Len(h) <= Len(p) /\ SubSeq(p, 1, Len(h)) = h
        /\ p = SubSeq(s, 1, Len(p)) /\ Len(p) <= consumed
    BY <1>1, <2>1 DEF Begins, HasPrefix
  <2>5. Len(h) <= Len(s) /\ SubSeq(s, 1, Len(h)) = h
    BY <2>2, <2>3, <2>4, LongerPrefix
  <2>6. Begins(r, stream)
    BY <2>1, <2>5 DEF Begins, HasPrefix
  <2>7. field = "bad"
    BY <1>1, <1>2, <2>6
  <2>8. Len(p) < Len(h)
    BY <1>1, <2>1, <2>6, <2>7 DEF IndInv, TrackInv
  <2>9. Len(p) \in Nat /\ Len(h) \in Nat
    BY <2>2, <2>3, LenProperties
  <2> QED BY SMT, <2>4, <2>8, <2>9
<1>4. RequestServed
  <2> SUFFICES ASSUME place = "closed" \/ Website, ~late,
                      NEW r \in sent.request, Proper(r), Begins(r, stream)
               PROVE  TargetRefused(r)
    BY DEF RequestServed
  <2>1. field = "done"
    BY <1>1 DEF IndInv, OffsetInv, TrackInv
  <2>2. SameRequest(got, r) /\ place = "closed" /\ InvalidTarget
    BY <1>1, <1>2, <2>1 DEF IndInv, ClosedInv
  <2> QED BY <2>2 DEF SameRequest, InvalidTarget, TargetRefused
<1> QED BY <1>3, <1>4 DEF RightPlace

\* Whatever the client sends, a complete request with valid credentials never goes to
\* the website, and is served if it arrives before the deadline and its target is
\* acceptable: the limit on the header is large enough for every request.
THEOREM RightTheorem == Spec => []RightPlace
BY Placed, Invariance, PTL
=============================================================================
