------------------------- MODULE EndpointGuardProofs -------------------------
(***************************************************************************)
(* Proofs about the outbound side of the OAuth flow, for any overrides,    *)
(* any answers of the resolver and any number of providers.                *)
(*                                                                         *)
(* Two facts about the operators carry the argument: a host that an        *)
(* allowlist entry matches lies in the zone of that entry, and the bit     *)
(* arithmetic of ip_is_public leaves no address of a private range.  The   *)
(* invariant then says that each place of a call has the checks of the     *)
(* places before it behind it.                                             *)
(***************************************************************************)
EXTENDS EndpointGuard, SequenceTheorems, TLAPS

\* The labels of a host; no prover knows of itself that a literal is a string.
Labels == STRING \cup {"accounts", "oauth2", "openidconnect", "www", "google", "googleapis", "com",
                      "login", "graph", "outlook", "microsoftonline", "microsoft", "office365"}

\* Every URL there is: the configured ones and the registry's.
UrlSet == Urls \cup {Lookup(p)[k] : p \in Providers, k \in Keys}

CallRecord ==
    [provider : Providers \cup {None}, op : {"exchange", "fetch_identity", "none"},
     url : UrlSet \cup {None}, pc : {"idle", "revalidate", "resolve", "send", "answer"}]

Shaped ==
    /\ config.overrides \in Overrides
    /\ call \in CallRecord
    /\ call.pc # "idle" \/ sent # {} => call.url \in UrlSet /\ call.provider \in Providers
    /\ dns \subseteq Addresses

\* A service that was built has only endpoints that pass the rules.
BuiltIsValid ==
    service = "built" => \A p \in Providers, k \in Keys : Valid(Pick(p, k), Lookup(p).hosts)

\* A call goes to a valid endpoint of its own provider: the build has seen to it, and
\* its revalidation finds nothing new.
ValidEndpoint ==
    call.pc # "idle" \/ sent # {} => Valid(call.url, Lookup(call.provider).hosts)

\* A call past its lookup found public addresses only, and they stay until they move.
PastLookup == call.pc = "send" /\ ~moved => AllPublic(dns)

\* What was sent went to the host of the call in hand, and only by its last step.
SentLast ==
    /\ \A h \in sent : h = call.url.host
    /\ call.pc # "answer" /\ result = None => sent = {} /\ peer = None
    /\ call.pc \in {"revalidate", "resolve", "send"} => result = None

GuardInv ==
    Shaped /\ BuiltIsValid /\ ValidEndpoint /\ PastLookup /\ SentLast /\ PublicUnlessMoved

-----------------------------------------------------------------------------
(* The zone of a matched host.                                             *)

LEMMA ThreeSeq ==
    ASSUME NEW r \in [1..3 -> Labels]
    PROVE  r \in Seq(Labels) /\ Len(r) = 3
  <1>1. r \in Seq(Labels)
    BY SeqDef
  <1>2. Len(r) \in Nat /\ DOMAIN r = 1..Len(r)
    BY <1>1, LenProperties
  <1>3. 1..3 = 1..Len(r)
    BY <1>2
  <1>4. Len(r) = 3
    BY <1>2, <1>3
  <1> QED
    BY <1>1, <1>4

\* An allowlist entry of three labels, read from its end.
LEMMA ReversedEntry ==
    ASSUME NEW a \in Labels, NEW b \in Labels, NEW c \in Labels
    PROVE  LET r == Reverse(<<a, b, c>>)
           IN r \in Seq(Labels) /\ Len(r) = 3 /\ r[1] = c /\ r[2] = b
  <1> DEFINE e == <<a, b, c>>
             r == [i \in 1..3 |-> e[(3 - i) + 1]]
  <1>1. e[1] = a /\ e[2] = b /\ e[3] = c /\ Len(e) = 3
    OBVIOUS
  <1>2. Reverse(e) = r
    BY <1>1 DEF Reverse
  <1>3. r[1] = e[(3 - 1) + 1] /\ r[2] = e[(3 - 2) + 1] /\ r[3] = e[(3 - 3) + 1]
    <2> HIDE DEF e
    <2>1. 1 \in 1..3 /\ 2 \in 1..3 /\ 3 \in 1..3
      OBVIOUS
    <2>2. \A i \in 1..3 : r[i] = e[(3 - i) + 1]
      BY Zenon
    <2> QED
      BY <2>1, <2>2, Zenon
  <1> HIDE DEF e, r
  <1>4. (3 - 1) + 1 = 3 /\ (3 - 2) + 1 = 2 /\ (3 - 3) + 1 = 1
    OBVIOUS
  <1>5. r[1] = e[3] /\ r[2] = e[2] /\ r[3] = e[1]
    BY <1>3, <1>4
  <1>6. r[1] = c /\ r[2] = b /\ r[3] = a
    BY <1>1, <1>5, Zenon
  <1>7. \A i \in 1..3 : r[i] \in Labels
    <2> SUFFICES ASSUME NEW i \in 1..3 PROVE r[i] \in Labels
      OBVIOUS
    <2>1. i = 1 \/ i = 2 \/ i = 3
      OBVIOUS
    <2> QED
      BY <1>6, <2>1, Zenon
  <1>8. r = [i \in 1..3 |-> r[i]]
    BY Zenon DEF r
  <1>9. r \in [1..3 -> Labels]
    BY <1>7, <1>8
  <1>10. r \in Seq(Labels) /\ Len(r) = 3
    BY <1>9, ThreeSeq
  <1> QED
    BY <1>2, <1>6, <1>10 DEF e

\* A longer host, read from its end.
LEMMA ReversedHost ==
    ASSUME NEW h \in Seq(Labels), Len(h) > 3
    PROVE  LET q == Reverse(h)
           IN q \in Seq(Labels) /\ Len(q) = Len(h) /\ q[1] = h[Len(h)] /\ q[2] = h[Len(h) - 1]
  <1> DEFINE n == Len(h)
             q == [i \in 1..n |-> h[(n - i) + 1]]
  <1>1. n \in Nat /\ n > 3
    OBVIOUS
  <1>2. Reverse(h) = q
    BY DEF Reverse
  <1>3. \A i \in 1..n : q[i] = h[(n - i) + 1]
    BY Zenon
  <1>4. \A i \in 1..n : h[(n - i) + 1] \in Labels
    <2> SUFFICES ASSUME NEW i \in 1..n PROVE h[(n - i) + 1] \in Labels
      OBVIOUS
    <2>1. (n - i) + 1 \in 1..Len(h)
      BY <1>1
    <2> QED
      BY <2>1, ElementOfSeq
  <1>5. q \in [1..n -> Labels]
    BY <1>4
  <1>6. q \in Seq(Labels) /\ Len(q) = n
    BY <1>1, <1>5, SeqDef
  <1> HIDE DEF q
  <1>7. (n - 1) + 1 = n /\ (n - 2) + 1 = n - 1 /\ 1 \in 1..n /\ 2 \in 1..n
    BY <1>1
  <1>8. q[1] = h[n] /\ q[2] = h[n - 1]
    BY <1>3, <1>7, Zenon
  <1> QED
    BY <1>2, <1>6, <1>8

LEMMA SamePrefix ==
    ASSUME NEW r \in Seq(Labels), NEW q \in Seq(Labels), Len(r) = 3, Len(q) > 3,
           SubSeq(r, 1, 3) = SubSeq(q, 1, 3)
    PROVE  r[1] = q[1] /\ r[2] = q[2]
  OBVIOUS

LEMMA TwoLabels ==
    ASSUME NEW t \in Seq(Labels), Len(t) = 2
    PROVE  t = <<t[1], t[2]>>
  OBVIOUS

LEMMA LastTwo ==
    ASSUME NEW h, NEW n \in Nat, n = Len(h), n >= 3, NEW b \in Labels, NEW c \in Labels,
           h[n - 1] = b, h[n] = c
    PROVE  Zone(h) = <<b, c>>
  <1> DEFINE t == SubSeq(h, n - 1, n)
  <1>1. \A i \in (n - 1)..n : h[i] \in Labels
    <2> SUFFICES ASSUME NEW i \in (n - 1)..n PROVE h[i] \in Labels
      OBVIOUS
    <2>1. i = n - 1 \/ i = n
      OBVIOUS
    <2> QED
      BY <2>1, Zenon
  <1>2. /\ t \in Seq(Labels)
        /\ Len(t) = IF n - 1 <= n THEN n - (n - 1) + 1 ELSE 0
        /\ \A i \in 1 .. n - (n - 1) + 1 : t[i] = h[(n - 1) + i - 1]
    BY <1>1, SubSeqProperties
  <1>3. Zone(h) = t
    BY DEF Zone
  <1> HIDE DEF t
  <1>4. /\ (IF n - 1 <= n THEN n - (n - 1) + 1 ELSE 0) = 2
        /\ (n - 1) + 1 - 1 = n - 1 /\ (n - 1) + 2 - 1 = n
        /\ 1 \in 1 .. n - (n - 1) + 1 /\ 2 \in 1 .. n - (n - 1) + 1
    OBVIOUS
  <1>5. t \in Seq(Labels) /\ Len(t) = 2
    BY <1>2, <1>4, Zenon
  <1>6. t[1] = h[(n - 1) + 1 - 1] /\ t[2] = h[(n - 1) + 2 - 1]
    BY <1>2, <1>4, Zenon
  <1>7. t[1] = b /\ t[2] = c
    BY <1>4, <1>6
  <1> QED
    BY <1>3, <1>5, <1>7, TwoLabels

\* A host that an entry matches has the last two labels of the entry.
LEMMA SuffixZone ==
    ASSUME NEW h \in Seq(Labels), NEW a \in Labels, NEW b \in Labels, NEW c \in Labels,
           Matches(h, <<a, b, c>>)
    PROVE  Zone(h) = <<b, c>>
  <1> DEFINE e == <<a, b, c>>
             r == Reverse(e)
             q == Reverse(h)
  <1>1. Len(e) = 3 /\ e[2] = b /\ e[3] = c
    OBVIOUS
  <1>2. r \in Seq(Labels) /\ Len(r) = 3 /\ r[1] = c /\ r[2] = b
    BY ReversedEntry
  <1>3. h = e \/ (Len(h) > Len(e) /\ IsSuffix(e, h))
    BY DEF Matches
  <1>4. IsSuffix(e, h) => SubSeq(r, 1, Len(r)) = SubSeq(q, 1, Len(r))
    BY DEF IsSuffix, IsPrefix
  <1> HIDE DEF e, r
  <1>5. Len(h) \in Nat /\ Len(h) >= 3 /\ h[Len(h) - 1] = b /\ h[Len(h)] = c
    <2>0. Len(h) \in Nat
      OBVIOUS
    <2>1. CASE h = e
      <3>1. Len(h) = 3 /\ h[2] = b /\ h[3] = c
        BY <1>1, <2>1, Zenon
      <3>2. Len(h) - 1 = 2 /\ Len(h) >= 3
        BY <3>1
      <3>3. h[Len(h) - 1] = b /\ h[Len(h)] = c
        BY <3>1, <3>2, Zenon
      <3> QED
        BY <2>0, <3>2, <3>3
    <2>2. CASE Len(h) > Len(e) /\ IsSuffix(e, h)
      <3>1. Len(h) > 3
        BY <1>1, <2>2
      <3>2. q \in Seq(Labels) /\ Len(q) = Len(h) /\ q[1] = h[Len(h)] /\ q[2] = h[Len(h) - 1]
        BY <3>1, ReversedHost
      <3> HIDE DEF q
      <3>3. SubSeq(r, 1, 3) = SubSeq(q, 1, 3)
        BY <1>2, <1>4, <2>2
      <3>4. r[1] = q[1] /\ r[2] = q[2]
        BY <1>2, <3>1, <3>2, <3>3, SamePrefix
      <3>5. h[Len(h) - 1] = b /\ h[Len(h)] = c
        BY <1>2, <3>2, <3>4
      <3> QED
        BY <2>0, <3>1, <3>5
    <2> QED
      BY <1>3, <2>1, <2>2
  <1> QED
    BY <1>5, LastTwo

-----------------------------------------------------------------------------
(* The address ranges.                                                     *)

\* ip_is_public lets no address of the private ranges through.
LEMMA PublicV4 ==
    ASSUME NEW hi \in 0..MaxHigh, NEW lo \in {"zero", "one", "some", "ones"},
           Ipv4IsPublic(hi, lo)
    PROVE  ~Within(hi, Private4) /\ ~(hi = 0 /\ lo = "zero") /\ ~(hi = 65535 /\ lo = "ones")
  <1> DEFINE a == hi \div 256
             b == hi % 256
  <1>1. a \in 0..255 /\ b \in 0..255 /\ hi = 256 * a + b
    BY DEF MaxHigh
  <1>2. /\ a # 127 /\ a # 10 /\ ~(a = 172 /\ b \in 16..31) /\ ~(a = 192 /\ b = 168)
        /\ ~(a = 169 /\ b = 254) /\ a \notin 224..239 /\ ~(a = 100 /\ b \div 64 = 1)
        /\ ~(hi = 0 /\ lo = "zero") /\ ~(hi = 65535 /\ lo = "ones")
    BY DEF Ipv4IsPublic
  <1>3. b \in 64..127 => b \div 64 = 1
    BY <1>1
  <1> HIDE DEF a, b
  <1>4. \A r \in Private4 : ~(r[1] <= hi /\ hi <= r[2])
    BY <1>1, <1>2, <1>3 DEF Private4, Prefix
  <1> QED
    BY <1>2, <1>4 DEF Within

LEMMA PublicV6 ==
    ASSUME NEW hi \in 0..MaxHigh, NEW lo \in {"zero", "one", "some", "ones"},
           Ipv6IsPublic(hi, lo)
    PROVE  ~Within(hi, Private6) /\ ~(hi = 0 /\ lo \in {"zero", "one"})
  <1>1. /\ hi \div 256 # 255 /\ hi \div 64 # 1018 /\ hi \div 512 # 126
        /\ ~(hi = 0 /\ lo \in {"zero", "one"})
    BY DEF Ipv6IsPublic
  <1>2. 64512 <= hi /\ hi <= 65023 => hi \div 512 = 126
    BY DEF MaxHigh
  <1>3. 65152 <= hi /\ hi <= 65215 => hi \div 64 = 1018
    BY DEF MaxHigh
  <1>4. 65280 <= hi /\ hi <= 65535 => hi \div 256 = 255
    BY DEF MaxHigh
  <1>5. \A r \in Private6 : ~(r[1] <= hi /\ hi <= r[2])
    BY <1>1, <1>2, <1>3, <1>4 DEF Private6, MaxHigh
  <1> QED
    BY <1>1, <1>5 DEF Within

LEMMA PublicIsAllowed ==
    ASSUME NEW x \in Addresses, IpIsPublic(x)
    PROVE  ~Forbidden(x)
  <1>1. x.hi \in 0..MaxHigh /\ x.lo \in {"zero", "one", "some", "ones"}
    BY DEF Addresses
  <1>2. CASE x.kind = "v6"
    BY <1>1, <1>2, PublicV6 DEF IpIsPublic, Forbidden
  <1>3. CASE x.kind # "v6"
    BY <1>1, <1>3, PublicV4 DEF IpIsPublic, Forbidden
  <1> QED
    BY <1>2, <1>3

\* A lookup the guard accepts has no forbidden address among its answers.
LEMMA AcceptedLookup ==
    ASSUME NEW answers \in SUBSET Addresses, AllPublic(answers), NEW x \in answers
    PROVE  ~Forbidden(x)
  BY PublicIsAllowed DEF AllPublic

-----------------------------------------------------------------------------
(* What the rules of an endpoint guarantee.                                *)

LEMMA PlainHost ==
    ASSUME NEW a \in Labels, NEW b \in Labels, NEW c \in Labels
    PROVE  Plain(<<a, b, c>>).host \in Seq(Labels)
  <1>1. Plain(<<a, b, c>>).host = <<a, b, c>>
    BY DEF Plain
  <1> DEFINE e == <<a, b, c>>
  <1>2. e = [i \in 1..3 |-> e[i]] /\ e[1] = a /\ e[2] = b /\ e[3] = c
    OBVIOUS
  <1> HIDE DEF e
  <1>3. \A i \in 1..3 : e[i] \in Labels
    <2> SUFFICES ASSUME NEW i \in 1..3 PROVE e[i] \in Labels
      OBVIOUS
    <2>1. i = 1 \/ i = 2 \/ i = 3
      OBVIOUS
    <2> QED
      BY <1>2, <2>1, Zenon
  <1>4. e \in [1..3 -> Labels]
    BY <1>2, <1>3
  <1>5. e \in Seq(Labels)
    BY <1>4, ThreeSeq
  <1> QED
    BY <1>1, <1>5 DEF e

LEMMA LabelHosts ==
    ASSUME NEW p, NEW k \in Keys
    PROVE  Lookup(p)[k].host \in Seq(Labels)
  <1>1. k = "authorize" \/ k = "token" \/ k = "userinfo"
    BY DEF Keys
  <1>2. Lookup(p) = GoogleAdapter \/ Lookup(p) = MicrosoftAdapter
    BY DEF Lookup
  <1>3. GoogleAdapter[k].host \in Seq(Labels)
    <2>1. /\ GoogleAdapter["authorize"] = Plain(<<"accounts", "google", "com">>)
          /\ GoogleAdapter["token"] = Plain(<<"oauth2", "googleapis", "com">>)
          /\ GoogleAdapter["userinfo"] = Plain(<<"openidconnect", "googleapis", "com">>)
      BY DEF GoogleAdapter
    <2> QED
      BY <1>1, <2>1, PlainHost DEF Labels
  <1>4. MicrosoftAdapter[k].host \in Seq(Labels)
    <2>1. /\ MicrosoftAdapter["authorize"] = Plain(<<"login", "microsoftonline", "com">>)
          /\ MicrosoftAdapter["token"] = Plain(<<"login", "microsoftonline", "com">>)
          /\ MicrosoftAdapter["userinfo"] = Plain(<<"graph", "microsoft", "com">>)
      BY DEF MicrosoftAdapter
    <2> QED
      BY <1>1, <2>1, PlainHost DEF Labels
  <1> QED
    BY <1>2, <1>3, <1>4

LEMMA UrlHost ==
    ASSUME NEW u \in UrlSet, u # Garbage, u.host # IpLiteral
    PROVE  u.host \in Seq(Labels)
  <1>1. CASE u \in Urls
    <2>1. u.host \in Seq(STRING)
      BY <1>1, GuardAssumption DEF GuardAssumption
    <2>2. \E n \in Nat : u.host \in [1..n -> STRING]
      BY <2>1, SeqDef
    <2>3. \E n \in Nat : u.host \in [1..n -> Labels]
      BY <2>2 DEF Labels
    <2> QED
      BY <2>3, SeqDef
  <1>2. CASE u \in {Lookup(p)[k] : p \in Providers, k \in Keys}
    BY <1>2, LabelHosts
  <1> QED
    BY <1>1, <1>2 DEF UrlSet

LEMMA GoogleZone ==
    ASSUME NEW h \in Seq(Labels), NEW e \in GoogleHosts, Matches(h, e)
    PROVE  Zone(h) \in {<<"google", "com">>, <<"googleapis", "com">>}
  <1>0. \A a, b, c \in Labels : Matches(h, <<a, b, c>>) => Zone(h) = <<b, c>>
    BY SuffixZone
  <1>1. CASE e = <<"accounts", "google", "com">>
    BY <1>0, <1>1 DEF Labels
  <1>2. CASE e = <<"oauth2", "googleapis", "com">>
    BY <1>0, <1>2 DEF Labels
  <1>3. CASE e = <<"openidconnect", "googleapis", "com">>
    BY <1>0, <1>3 DEF Labels
  <1>4. CASE e = <<"www", "googleapis", "com">>
    BY <1>0, <1>4 DEF Labels
  <1> QED
    BY <1>1, <1>2, <1>3, <1>4 DEF GoogleHosts

LEMMA MicrosoftZone ==
    ASSUME NEW h \in Seq(Labels), NEW e \in MicrosoftHosts, Matches(h, e)
    PROVE  Zone(h) \in {<<"microsoftonline", "com">>, <<"microsoft", "com">>,
                        <<"office365", "com">>}
  <1>0. \A a, b, c \in Labels : Matches(h, <<a, b, c>>) => Zone(h) = <<b, c>>
    BY SuffixZone
  <1>1. CASE e = <<"login", "microsoftonline", "com">>
    BY <1>0, <1>1 DEF Labels
  <1>2. CASE e = <<"graph", "microsoft", "com">>
    BY <1>0, <1>2 DEF Labels
  <1>3. CASE e = <<"outlook", "office365", "com">>
    BY <1>0, <1>3 DEF Labels
  <1> QED
    BY <1>1, <1>2, <1>3 DEF MicrosoftHosts

\* An endpoint that passes the rules lies in a zone of its provider.
LEMMA ValidZone ==
    ASSUME NEW u \in UrlSet, NEW p \in Providers, Valid(u, Lookup(p).hosts)
    PROVE  /\ u # Garbage /\ u.host # IpLiteral
           /\ u.scheme = "https" /\ u.port \in {None, 443}
           /\ Zone(u.host) \in ZonesOf(p)
  <1>1. /\ u # Garbage /\ u.host # IpLiteral
        /\ u.scheme = "https" /\ u.port \in {None, 443}
        /\ \E e \in Lookup(p).hosts : Matches(u.host, e)
    BY DEF Valid
  <1>2. PICK e \in Lookup(p).hosts : Matches(u.host, e)
    BY <1>1
  <1>3. u.host \in Seq(Labels)
    BY <1>1, UrlHost
  <1>4. Zone(u.host) \in ZonesOf(p)
    <2>1. CASE p \in {"gmail", "google_calendar"}
      <3>1. e \in GoogleHosts
        BY <1>2, <2>1 DEF Lookup, GoogleAdapter
      <3>2. Zone(u.host) \in {<<"google", "com">>, <<"googleapis", "com">>}
        BY <1>2, <1>3, <3>1, GoogleZone
      <3> QED
        BY <2>1, <3>2, Zenon DEF ZonesOf
    <2>2. CASE p \notin {"gmail", "google_calendar"}
      <3>0. p \in {"outlook", "microsoft_calendar"}
        BY <2>2, GuardAssumption DEF GuardAssumption
      <3>1. e \in MicrosoftHosts
        BY <1>2, <2>2 DEF Lookup, MicrosoftAdapter
      <3>2. Zone(u.host) \in {<<"microsoftonline", "com">>, <<"microsoft", "com">>,
                              <<"office365", "com">>}
        BY <1>2, <1>3, <3>1, MicrosoftZone
      <3> QED
        BY <2>2, <3>0, <3>2, Zenon DEF ZonesOf
    <2> QED
      BY <2>1, <2>2
  <1> QED
    BY <1>1, <1>4

LEMMA PickTyped ==
    ASSUME config.overrides \in Overrides, NEW p \in Providers, NEW k \in Keys
    PROVE  Pick(p, k) \in UrlSet
  <1>1. config.overrides[p][k] \in Urls \cup {None}
    BY GuardAssumption DEF GuardAssumption, Overrides
  <1> QED
    BY <1>1 DEF Pick, UrlSet

LEMMA SparseTyped == SparseOverrides \subseteq Overrides
  <1> SUFFICES ASSUME NEW o \in SparseOverrides PROVE o \in Overrides
    OBVIOUS
  <1> DEFINE Filled(s, f) ==
               [p \in ConfigKeys |-> [k \in Keys |-> IF <<p, k>> \in s THEN f[<<p, k>>] ELSE None]]
             Fillings(s) == {Filled(s, f) : f \in [s -> Urls]}
             at == {s \in SUBSET (ConfigKeys \X Keys) : Cardinality(s) <= MaxOverrides}
  <1>a. SparseOverrides = UNION {Fillings(s) : s \in at}
    BY Zenon DEF SparseOverrides
  <1>b. PICK s \in at : o \in Fillings(s)
    <2> HIDE DEF Fillings, at
    <2> QED
      BY <1>a
  <1>0. s \in SUBSET (ConfigKeys \X Keys) /\ \E f \in [s -> Urls] : o = Filled(s, f)
    <2> HIDE DEF Filled
    <2> QED
      BY <1>b
  <1>1. PICK f \in [s -> Urls] : o = Filled(s, f)
    BY <1>0
  <1>2. \A p \in ConfigKeys, k \in Keys :
           (IF <<p, k>> \in s THEN f[<<p, k>>] ELSE None) \in Urls \cup {None}
    OBVIOUS
  <1> QED
    BY <1>1, <1>2 DEF Overrides

\* A step of a call changes its place only.
LEMMA MovePc ==
    ASSUME NEW c \in CallRecord, NEW l \in {"idle", "revalidate", "resolve", "send", "answer"}
    PROVE  LET d == [c EXCEPT !.pc = l]
           IN /\ d \in CallRecord /\ d.pc = l
              /\ d.url = c.url /\ d.provider = c.provider
  BY DEF CallRecord

-----------------------------------------------------------------------------
(* Every step keeps the invariant.                                         *)

LEMMA InitGuard == Init => GuardInv
  <1> SUFFICES ASSUME Init PROVE GuardInv
    OBVIOUS
  <1>1. config.overrides \in Overrides
    BY SparseTyped DEF Init
  <1>2. call = NoCall /\ dns = {} /\ sent = {} /\ peer = None /\ service = "unbuilt"
    BY DEF Init
  <1>3. call \in CallRecord /\ call.pc = "idle"
    BY <1>2 DEF CallRecord, NoCall
  <1>4. Shaped
    BY <1>1, <1>2, <1>3 DEF Shaped
  <1> QED
    BY <1>2, <1>3, <1>4
       DEF GuardInv, BuiltIsValid, ValidEndpoint, PastLookup, SentLast, PublicUnlessMoved

\* The endpoints are those of the configuration, which nothing changes.
LEMMA KeepsBuilt ==
    ASSUME BuiltIsValid, UNCHANGED config, service' = "built" => service = "built"
    PROVE  BuiltIsValid'
  <1>1. \A p \in Providers, k \in Keys : Pick(p, k)' = Pick(p, k)
    BY DEF Pick
  <1> QED
    BY <1>1 DEF BuiltIsValid

\* The end of a call that sent nothing, or whose answer is in.
LEMMA ReturnKeeps ==
    ASSUME GuardInv, NEW r \in Results \ {None}, Return(r), call.pc # "idle",
           UNCHANGED <<config, service, sent, peer, moved>>, dns' \subseteq Addresses
    PROVE  GuardInv'
  <1>1. call' \in CallRecord /\ call'.pc = "idle"
        /\ call'.url = call.url /\ call'.provider = call.provider
    <2>1. call' = [call EXCEPT !.pc = "idle"] /\ call \in CallRecord
      BY DEF Return, GuardInv, Shaped
    <2> QED
      BY <2>1, MovePc
  <1>2. result' = r /\ r # None
    BY DEF Return
  <1>3. Shaped'
    BY <1>1 DEF GuardInv, Shaped
  <1>4. BuiltIsValid'
    BY KeepsBuilt DEF GuardInv
  <1>5. ValidEndpoint' /\ PastLookup'
    BY <1>1 DEF GuardInv, ValidEndpoint, PastLookup
  <1>6. SentLast' /\ PublicUnlessMoved'
    BY <1>1, <1>2 DEF GuardInv, SentLast, PublicUnlessMoved
  <1> QED
    BY <1>3, <1>4, <1>5, <1>6 DEF GuardInv

\* The builder's steps leave the call alone.
LEMMA BuilderKeeps ==
    ASSUME GuardInv, UNCHANGED <<config, call, dns, moved, sent, peer, result>>, BuiltIsValid'
    PROVE  GuardInv'
  BY DEF GuardInv, Shaped, ValidEndpoint, PastLookup, SentLast, PublicUnlessMoved

LEMMA BuildKeeps ==
    ASSUME GuardInv, Build
    PROVE  GuardInv'
  <1>1. \A p \in Providers, k \in Keys : Pick(p, k)' = Pick(p, k)
    BY DEF Pick, Build
  <1>2. BuiltIsValid'
    <2>1. service' = "built" =>
            \A p \in Providers, k \in Keys : Valid(Pick(p, k), Lookup(p).hosts)
      BY DEF Build
    <2> QED
      BY <1>1, <2>1 DEF BuiltIsValid
  <1> QED
    BY <1>2, BuilderKeeps DEF Build

LEMMA BuildModuleKeeps ==
    ASSUME GuardInv, BuildModule
    PROVE  GuardInv'
  <1>1. BuiltIsValid'
    BY KeepsBuilt DEF GuardInv, BuildModule
  <1> QED
    BY <1>1, BuilderKeeps DEF BuildModule

LEMMA BeginKeeps ==
    ASSUME GuardInv, NEW p \in Providers, NEW op \in {"exchange", "fetch_identity"}, Begin(p, op)
    PROVE  GuardInv'
  <1>1. call = NoCall /\ result = None /\ call.pc = "idle"
    BY DEF Begin, NoCall
  <1>2. sent = {} /\ peer = None
    BY <1>1 DEF GuardInv, SentLast
  <1>3. UNCHANGED <<config, service, dns, moved, sent, peer>>
    BY DEF Begin
  <1>4. BuiltIsValid'
    BY <1>3, KeepsBuilt DEF GuardInv
  <1>5. CASE p \in config.clients
    <2> DEFINE u == Pick(p, IF op = "exchange" THEN "token" ELSE "userinfo")
    <2>1. u \in UrlSet
      BY PickTyped DEF GuardInv, Shaped, Keys
    <2>2. call' = [provider |-> p, op |-> op, pc |-> "revalidate", url |-> u]
      BY <1>5 DEF Begin
    <2> HIDE DEF u
    <2>3. call' \in CallRecord /\ call'.pc = "revalidate" /\ call'.url = u
      BY <2>1, <2>2 DEF CallRecord
    <2>4. result' = None
      BY <1>1, <1>5 DEF Begin
    <2>5. Shaped'
      BY <1>3, <2>1, <2>2, <2>3 DEF GuardInv, Shaped
    <2>6. Valid(u, Lookup(p).hosts)
      BY DEF Begin, GuardInv, BuiltIsValid, Keys, u
    <2>7. ValidEndpoint'
      BY <2>2, <2>6 DEF ValidEndpoint
    <2>8. PastLookup' /\ SentLast' /\ PublicUnlessMoved'
      BY <1>2, <1>3, <2>3, <2>4 DEF PastLookup, SentLast, PublicUnlessMoved
    <2> QED
      BY <1>4, <2>5, <2>7, <2>8 DEF GuardInv
  <1>6. CASE p \notin config.clients
    <2>1. result' = "ProviderUnconfigured" /\ UNCHANGED call
      BY <1>6 DEF Begin
    <2>2. Shaped'
      BY <1>3, <2>1 DEF GuardInv, Shaped
    <2>3. ValidEndpoint' /\ PastLookup' /\ SentLast' /\ PublicUnlessMoved'
      BY <1>1, <1>2, <1>3, <2>1 DEF ValidEndpoint, PastLookup, SentLast, PublicUnlessMoved
    <2> QED
      BY <1>4, <2>2, <2>3 DEF GuardInv
  <1> QED
    BY <1>5, <1>6

LEMMA RevalidateKeeps ==
    ASSUME GuardInv, Revalidate
    PROVE  GuardInv'
  <1>1. call.pc = "revalidate" /\ result = None /\ sent = {} /\ peer = None
    BY DEF Revalidate, GuardInv, SentLast
  <1>2. UNCHANGED <<config, service, dns, moved, sent, peer>>
    BY DEF Revalidate
  <1>3. CASE Return("EndpointGuard")
    <2>1. "EndpointGuard" \in Results \ {None}
      BY GuardAssumption DEF GuardAssumption, Results
    <2>2. dns' \subseteq Addresses
      BY <1>2 DEF GuardInv, Shaped
    <2> QED
      BY <1>1, <1>2, <1>3, <2>1, <2>2, ReturnKeeps
  <1>4. CASE /\ Valid(call.url, Lookup(call.provider).hosts)
             /\ call' = [call EXCEPT !.pc = "resolve"] /\ UNCHANGED result
    <2>1. call' \in CallRecord /\ call'.pc = "resolve"
          /\ call'.url = call.url /\ call'.provider = call.provider
      BY <1>4, MovePc DEF GuardInv, Shaped
    <2>2. Shaped'
      BY <1>1, <1>2, <2>1 DEF GuardInv, Shaped
    <2>3. BuiltIsValid'
      BY <1>2, KeepsBuilt DEF GuardInv
    <2>4. ValidEndpoint'
      BY <1>4, <2>1 DEF ValidEndpoint
    <2>5. PastLookup' /\ SentLast' /\ PublicUnlessMoved'
      BY <1>1, <1>2, <1>4, <2>1 DEF PastLookup, SentLast, PublicUnlessMoved
    <2> QED
      BY <2>2, <2>3, <2>4, <2>5 DEF GuardInv
  <1> QED
    BY <1>3, <1>4 DEF Revalidate

LEMMA ResolveKeeps ==
    ASSUME GuardInv, Resolve
    PROVE  GuardInv'
  <1>1. call.pc = "resolve" /\ result = None /\ sent = {} /\ peer = None
    BY DEF Resolve, GuardInv, SentLast
  <1>2. UNCHANGED <<config, service, moved, sent, peer>>
    BY DEF Resolve
  <1>3. dns' \subseteq Addresses
    BY GuardAssumption DEF GuardAssumption, Resolve, GuardInv, Shaped
  <1>4. CASE Return("EndpointGuard")
    <2>1. "EndpointGuard" \in Results \ {None}
      BY GuardAssumption DEF GuardAssumption, Results
    <2> QED
      BY <1>1, <1>2, <1>3, <1>4, <2>1, ReturnKeeps
  <1>5. CASE /\ AllPublic(dns')
             /\ call' = [call EXCEPT !.pc = "send"] /\ UNCHANGED result
    <2>1. call' \in CallRecord /\ call'.pc = "send"
          /\ call'.url = call.url /\ call'.provider = call.provider
      BY <1>5, MovePc DEF GuardInv, Shaped
    <2>2. Shaped'
      BY <1>1, <1>2, <1>3, <2>1 DEF GuardInv, Shaped
    <2>3. BuiltIsValid'
      BY <1>2, KeepsBuilt DEF GuardInv
    <2>4. ValidEndpoint'
      BY <1>1, <1>2, <2>1 DEF GuardInv, ValidEndpoint
    <2>5. PastLookup'
      BY <1>5 DEF PastLookup, AllPublic
    <2>6. SentLast' /\ PublicUnlessMoved'
      BY <1>1, <1>2, <1>5, <2>1 DEF SentLast, PublicUnlessMoved
    <2> QED
      BY <2>2, <2>3, <2>4, <2>5, <2>6 DEF GuardInv
  <1> QED
    BY <1>4, <1>5 DEF Resolve

LEMMA DnsMovesKeeps ==
    ASSUME GuardInv, DnsMoves
    PROVE  GuardInv'
  <1>1. moved' = TRUE /\ UNCHANGED <<config, service, call, sent, peer, result>>
    BY DEF DnsMoves
  <1>2. dns' \subseteq Addresses
    BY GuardAssumption DEF GuardAssumption, DnsMoves
  <1>3. Shaped'
    BY <1>1, <1>2 DEF GuardInv, Shaped
  <1>4. BuiltIsValid'
    BY <1>1, KeepsBuilt DEF GuardInv
  <1>5. ValidEndpoint' /\ PastLookup' /\ SentLast' /\ PublicUnlessMoved'
    BY <1>1 DEF GuardInv, ValidEndpoint, PastLookup, SentLast, PublicUnlessMoved
  <1> QED
    BY <1>3, <1>4, <1>5 DEF GuardInv

LEMMA SendKeeps ==
    ASSUME GuardInv, Send
    PROVE  GuardInv'
  <1>1. call.pc = "send" /\ result = None /\ sent = {} /\ peer = None
    BY DEF Send, GuardInv, SentLast
  <1>2. UNCHANGED <<config, service, dns, moved>> /\ dns \subseteq Addresses
    BY DEF Send, GuardInv, Shaped
  <1>3. CASE Return("Network") /\ UNCHANGED <<sent, peer>>
    <2>1. "Network" \in Results \ {None}
      BY GuardAssumption DEF GuardAssumption, Results
    <2> QED
      BY <1>1, <1>2, <1>3, <2>1, ReturnKeeps
  <1>4. CASE /\ peer' \in dns
             /\ sent' = sent \cup {call.url.host}
             /\ call' = [call EXCEPT !.pc = "answer"]
             /\ UNCHANGED result
    <2>1. call' \in CallRecord /\ call'.pc = "answer"
          /\ call'.url = call.url /\ call'.provider = call.provider
      BY <1>4, MovePc DEF GuardInv, Shaped
    <2>2. Shaped'
      BY <1>1, <1>2, <2>1 DEF GuardInv, Shaped
    <2>3. BuiltIsValid'
      BY <1>2, KeepsBuilt DEF GuardInv
    <2>4. ValidEndpoint' /\ PastLookup'
      BY <1>1, <2>1 DEF GuardInv, ValidEndpoint, PastLookup
    <2>5. SentLast'
      BY <1>1, <1>4, <2>1 DEF SentLast
    <2>6. PublicUnlessMoved'
      <3> SUFFICES ASSUME ~moved PROVE ~Forbidden(peer')
        BY <1>2 DEF PublicUnlessMoved
      <3>1. AllPublic(dns)
        BY <1>1 DEF GuardInv, PastLookup
      <3> QED
        BY <1>2, <1>4, <3>1, AcceptedLookup
    <2> QED
      BY <2>2, <2>3, <2>4, <2>5, <2>6 DEF GuardInv
  <1> QED
    BY <1>3, <1>4 DEF Send

LEMMA AnswerKeeps ==
    ASSUME GuardInv, Answer
    PROVE  GuardInv'
  <1>1. PICK r \in {"Ok", "Provider", "Network", "InvalidGrant"} : Return(r)
    BY DEF Answer
  <1>2. r \in Results \ {None}
    BY GuardAssumption DEF GuardAssumption, Results
  <1>3. call.pc = "answer" /\ UNCHANGED <<config, service, dns, moved, sent, peer>>
    BY DEF Answer
  <1>4. dns' \subseteq Addresses
    BY <1>3 DEF GuardInv, Shaped
  <1> QED
    BY <1>1, <1>2, <1>3, <1>4, ReturnKeeps

LEMMA FinishKeeps ==
    ASSUME GuardInv, Finish
    PROVE  GuardInv'
  <1>1. call' = NoCall /\ dns' = {} /\ moved' = FALSE /\ sent' = {} /\ peer' = None
        /\ UNCHANGED <<config, service>>
    BY DEF Finish
  <1>2. call' \in CallRecord /\ call'.pc = "idle"
    BY <1>1 DEF CallRecord, NoCall
  <1>3. Shaped'
    BY <1>1, <1>2 DEF GuardInv, Shaped
  <1>4. BuiltIsValid'
    BY <1>1, KeepsBuilt DEF GuardInv
  <1>5. ValidEndpoint' /\ PastLookup' /\ SentLast' /\ PublicUnlessMoved'
    BY <1>1, <1>2 DEF ValidEndpoint, PastLookup, SentLast, PublicUnlessMoved
  <1> QED
    BY <1>3, <1>4, <1>5 DEF GuardInv

-----------------------------------------------------------------------------
(* The theorems.                                                           *)

\* Every place of an outbound call has the guard's earlier checks behind it.
THEOREM GuardInvariant == Spec => []GuardInv
  <1>1. GuardInv /\ [Next]_vars => GuardInv'
    <2> SUFFICES ASSUME GuardInv, [Next]_vars PROVE GuardInv'
      OBVIOUS
    <2>1. CASE UNCHANGED vars
      <3>1. BuiltIsValid'
        BY <2>1, KeepsBuilt DEF GuardInv, vars
      <3> QED
        BY <2>1, <3>1, BuilderKeeps DEF vars
    <2>2. CASE Next
      BY <2>2, BuildModuleKeeps, BuildKeeps, BeginKeeps, RevalidateKeeps, ResolveKeeps,
         DnsMovesKeeps, SendKeeps, AnswerKeeps, FinishKeeps DEF Next
    <2> QED
      BY <2>1, <2>2
  <1> QED
    BY InitGuard, <1>1, PTL DEF Spec

\* Whatever the overrides say, a request with a code, a secret or a token leaves over
\* https, on the default port, for a host in a zone of the account's own provider
\* (validate_endpoint at build and ValidatedEndpoint::revalidate before the call).
THEOREM SecretsStayAtHome == Spec => []SecretsStayHome
  <1>1. GuardInv => SecretsStayHome
    <2> SUFFICES ASSUME GuardInv, sent # {}
                 PROVE  /\ call.url.scheme = "https" /\ call.url.port \in {None, 443}
                        /\ \A h \in sent : Zone(h) \in ZonesOf(call.provider)
      BY DEF SecretsStayHome
    <2>1. /\ call.url \in UrlSet /\ call.provider \in Providers
          /\ Valid(call.url, Lookup(call.provider).hosts)
      BY DEF GuardInv, Shaped, ValidEndpoint
    <2>2. /\ call.url.scheme = "https" /\ call.url.port \in {None, 443}
          /\ Zone(call.url.host) \in ZonesOf(call.provider)
      BY <2>1, ValidZone
    <2>3. \A h \in sent : h = call.url.host
      BY DEF GuardInv, SentLast
    <2> QED
      BY <2>2, <2>3
  <1> QED
    BY GuardInvariant, <1>1, PTL

\* A call is refused before it leaves only where the transport's own registry lacks the
\* provider: what its revalidation would refuse, IntegrationsOauthService::build has
\* refused, whatever the overrides and whichever the registered providers
\* ("a bad override yields no module, not a degraded one").
THEOREM RefusalIsNotLate == Spec => NoLateRefusal
  <1>1. GuardInv /\ [Next]_vars =>
          [call.pc = "revalidate" /\ result' # None => call.provider \notin registered]_vars
    <2> SUFFICES ASSUME GuardInv, Next, call.pc = "revalidate", result' # None
                 PROVE  call.provider \notin registered
      OBVIOUS
    <2>1. result = None /\ call # NoCall
      BY DEF GuardInv, SentLast, NoCall
    <2>2. Valid(call.url, Lookup(call.provider).hosts)
      BY DEF GuardInv, ValidEndpoint
    <2>3. Revalidate
      BY <2>1 DEF Next, BuildModule, Build, Begin, Resolve, DnsMoves, Send, Answer, Finish
    <2> QED
      BY <2>1, <2>2, <2>3 DEF Revalidate
  <1> QED
    BY GuardInvariant, <1>1, PTL DEF Spec, NoLateRefusal

\* A request reaches an address of a private range only if the name was moved between
\* the guard's lookup and the client's (assert_public_resolution, ip_is_public).
THEOREM PublicUnlessItMoved == Spec => []PublicUnlessMoved
  <1>1. GuardInv => PublicUnlessMoved
    BY DEF GuardInv
  <1> QED
    BY GuardInvariant, <1>1, PTL
=============================================================================
