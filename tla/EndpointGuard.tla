---------------------------- MODULE EndpointGuard ----------------------------
(***************************************************************************)
(* The outbound side of the OAuth flow: the endpoints a deployment         *)
(* configures, their validation when the service is built and again before *)
(* every call, the check of what the host resolves to, and the call.       *)
(*                                                                         *)
(* A host is the sequence of its labels, a URL what the url crate makes of *)
(* the configured string: Garbage if it does not parse.  An address keeps  *)
(* its first 16 bits and what is special about the others.                 *)
(***************************************************************************)
EXTENDS Naturals, Sequences, FiniteSets, SequencesExt

CONSTANTS
    Providers,     \* the registered providers
    ConfigKeys,    \* the keys a configuration may name overrides under
    Urls,          \* the URLs an override may name
    MaxOverrides,  \* how many overrides a configuration has at most
    Answers,       \* what a lookup may return: sets of addresses
    Garbage, IpLiteral, None

Keys == {"authorize", "token", "userinfo"}

\* The largest value of 16 bits.
MaxHigh == 65535

Addresses == [kind : {"v4", "v6", "mapped"}, hi : 0..MaxHigh,
              lo : {"zero", "one", "some", "ones"}]

ASSUME GuardAssumption ==
    /\ Providers \subseteq {"gmail", "google_calendar", "outlook", "microsoft_calendar"}
    \* A configuration may name any provider; one of the registry's is registered.
    /\ Providers \subseteq ConfigKeys
    /\ ConfigKeys \cap {"gmail", "google_calendar", "outlook", "microsoft_calendar"} \subseteq Providers
    /\ MaxOverrides \in Nat
    /\ Answers \subseteq SUBSET Addresses
    \* A host is an address literal or a sequence of labels, and an absent result none
    \* of the outcomes of a call.
    /\ \A u \in Urls : u = Garbage \/ u.host = IpLiteral \/ u.host \in Seq(STRING)
    /\ None \notin {"Ok", "InvalidGrant", "Provider", "Network", "EndpointGuard",
                    "ProviderUnconfigured"}

VARIABLES
    config,      \* IntegrationsOauthConfig, as far as build looks at it
    registered,  \* the providers of the transport's own registry
    service,     \* how far the module builder has come with the OAuth service
    call,        \* the outbound call in progress
    dns,         \* what its host resolves to now
    moved,       \* dns has changed since the guard looked
    sent,        \* the hosts that have received the request
    peer,        \* the address it went to
    result       \* of the last call
vars == <<config, registered, service, call, dns, moved, sent, peer, result>>

-----------------------------------------------------------------------------
(* The registry                                                            *)

GoogleHosts ==
    {<<"accounts", "google", "com">>, <<"oauth2", "googleapis", "com">>,
     <<"openidconnect", "googleapis", "com">>, <<"www", "googleapis", "com">>}
MicrosoftHosts ==
    {<<"login", "microsoftonline", "com">>, <<"graph", "microsoft", "com">>,
     <<"outlook", "office365", "com">>}

\* A URL with nothing but a host and a path.
Plain(h) == [scheme |-> "https", host |-> h, user |-> FALSE, port |-> None,
             root |-> FALSE, query |-> FALSE, fragment |-> FALSE]

GoogleAdapter ==
    [hosts     |-> GoogleHosts,
     authorize |-> Plain(<<"accounts", "google", "com">>),
     token     |-> Plain(<<"oauth2", "googleapis", "com">>),
     userinfo  |-> Plain(<<"openidconnect", "googleapis", "com">>)]
MicrosoftAdapter ==
    [hosts     |-> MicrosoftHosts,
     authorize |-> Plain(<<"login", "microsoftonline", "com">>),
     token     |-> Plain(<<"login", "microsoftonline", "com">>),
     userinfo  |-> Plain(<<"graph", "microsoft", "com">>)]

\* ProviderRegistry::lookup
Lookup(p) == IF p \in {"gmail", "google_calendar"} THEN GoogleAdapter ELSE MicrosoftAdapter

-----------------------------------------------------------------------------
(* validate_endpoint                                                       *)

\* Mutation: the entry may occur anywhere in the host.
OccursIn(h, e) ==
    \E i \in 1..Len(h) : i + Len(e) - 1 <= Len(h) /\ SubSeq(h, i, i + Len(e) - 1) = e

\* The entry itself or a subdomain of it.
Matches(h, e) == h = e \/ (Len(h) > Len(e) /\ IsSuffix(e, h))

Valid(u, allowlist) ==
    /\ u # Garbage
    /\ u.scheme = "https"
    /\ u.host # <<>>
    /\ ~u.user
    /\ u.host # IpLiteral
    /\ \E e \in allowlist : Matches(u.host, e)
    /\ u.port \in {None, 443}
    /\ ~u.root
    /\ ~u.query
    /\ ~u.fragment

\* ValidatedEndpoints::resolve: the override if there is one.
Pick(p, k) ==
    IF config.overrides[p][k] # None THEN config.overrides[p][k] ELSE Lookup(p)[k]

-----------------------------------------------------------------------------
(* The address ranges                                                      *)

Ipv4IsPublic(hi, lo) ==
    LET a == hi \div 256  b == hi % 256 IN
    ~ \/ a = 127                                            \* loopback
      \/ a = 10 \/ (a = 172 /\ b \in 16..31) \/ (a = 192 /\ b = 168)
      \/ a = 169 /\ b = 254                                 \* link-local
      \/ hi = 0 /\ lo = "zero"                              \* unspecified
      \/ a \in 224..239                                     \* multicast
      \/ hi = 65535 /\ lo = "ones"                          \* broadcast
      \/ a = 100 /\ b \div 64 = 1                           \* & 0b1100_0000

Ipv6IsPublic(hi, lo) ==
    ~ \/ hi = 0 /\ lo \in {"zero", "one"}                   \* unspecified, loopback
      \/ hi \div 256 = 255                                  \* multicast
      \/ hi \div 64 = 65152 \div 64                         \* fe80::/10
      \/ hi \div 512 = 64512 \div 512                       \* fc00::/7

IpIsPublic(a) ==
    IF a.kind = "v6" THEN Ipv6IsPublic(a.hi, a.lo) ELSE Ipv4IsPublic(a.hi, a.lo)

\* Mutation: one acceptable address is enough.
SomePublic(answers) == \E a \in answers : IpIsPublic(a)

\* assert_public_resolution
AllPublic(answers) == answers # {} /\ \A a \in answers : IpIsPublic(a)

-----------------------------------------------------------------------------

NoCall == [provider |-> None, op |-> "none", url |-> None, pc |-> "idle"]
Results == {None, "Ok", "InvalidGrant", "Provider", "Network", "EndpointGuard",
            "ProviderUnconfigured"}

Overrides == [ConfigKeys -> [Keys -> Urls \cup {None}]]
Overridden(o) == {pk \in ConfigKeys \X Keys : o[pk[1]][pk[2]] # None}

TypeOK ==
    /\ config.overrides \in Overrides
    /\ config.secret \in {"good", "inline", "unset", "short"}
    /\ config.base \in BOOLEAN /\ config.given \in BOOLEAN /\ config.store \in BOOLEAN
    /\ config.clients \subseteq Providers
    /\ registered \subseteq Providers
    /\ service \in {"unbuilt", "bound", "absent", "refused", "built"}
    /\ call.provider \in Providers \cup {None}
    /\ call.op \in {"exchange", "fetch_identity", "none"}
    /\ call.url \in Urls \cup {Lookup(p)[k] : p \in Providers, k \in Keys} \cup {None}
    /\ call.pc \in {"idle", "revalidate", "resolve", "send", "answer"}
    /\ dns \in Answers \cup {{}}
    /\ moved \in BOOLEAN
    /\ sent \subseteq {u.host : u \in {Pick(p, k) : p \in Providers, k \in Keys} \ {Garbage}}
    /\ peer \in UNION Answers \cup {None}
    /\ result \in Results

\* A configuration has few overrides at a time.
SparseOverrides ==
    LET at == {s \in SUBSET (ConfigKeys \X Keys) : Cardinality(s) <= MaxOverrides}
    IN UNION {{[p \in ConfigKeys |-> [k \in Keys |-> IF <<p, k>> \in s THEN f[<<p, k>>] ELSE None]] :
                 f \in [s -> Urls]} : s \in at}

Init ==
    /\ config \in [overrides : SparseOverrides, secret : {"good", "inline", "unset", "short"},
                   base : BOOLEAN, clients : SUBSET Providers, given : BOOLEAN, store : BOOLEAN]
    \* A configuration with another fault has no overrides, to keep them few.
    /\ \/ Overridden(config.overrides) = {}
       \/ config.secret = "good" /\ config.base /\ config.given /\ config.store
    /\ registered \in SUBSET Providers
    /\ service = "unbuilt"
    /\ call = NoCall /\ dns = {} /\ moved = FALSE
    /\ sent = {} /\ peer = None /\ result = None

\* The module builder: OAuth is there only if it was configured, and not without
\* a credential store; the transport has a default.
BuildModule ==
    /\ service = "unbuilt"
    /\ service' = IF ~config.given THEN "absent" ELSE IF config.store THEN "bound" ELSE "refused"
    /\ UNCHANGED <<config, registered, call, dns, moved, sent, peer, result>>

\* Mutation: the identity endpoint is validated when it is first used.
BuildWithoutIdentity ==
    /\ service = "bound"
    /\ service' = IF /\ config.secret = "good"
                     /\ config.base
                     /\ \A p \in Providers, k \in Keys \ {"userinfo"} : Valid(Pick(p, k), Lookup(p).hosts)
                  THEN "built" ELSE "refused"
    /\ UNCHANGED <<config, registered, call, dns, moved, sent, peer, result>>

\* IntegrationsOauthService::build: every registered provider's every endpoint, or no
\* service.  What the configuration names besides is never looked at.
Build ==
    /\ service = "bound"
    /\ service' = IF /\ config.secret = "good"
                     /\ config.base
                     /\ \A p \in Providers, k \in Keys : Valid(Pick(p, k), Lookup(p).hosts)
                  THEN "built" ELSE "refused"
    /\ UNCHANGED <<config, registered, call, dns, moved, sent, peer, result>>

\* endpoints_for; the token endpoint for the grants, the identity endpoint after.
Begin(p, op) ==
    /\ service = "built" /\ call = NoCall /\ result = None
    /\ IF p \in config.clients
       THEN /\ call' = [provider |-> p, op |-> op, pc |-> "revalidate",
                        url |-> Pick(p, IF op = "exchange" THEN "token" ELSE "userinfo")]
            /\ UNCHANGED result
       ELSE result' = "ProviderUnconfigured" /\ UNCHANGED call
    /\ UNCHANGED <<config, registered, service, dns, moved, sent, peer>>

\* The end of a call, as its caller sees it.
Return(r) == result' = r /\ call' = [call EXCEPT !.pc = "idle"]

\* ValidatedEndpoint::revalidate, against the transport's registry.
Revalidate ==
    /\ call.pc = "revalidate"
    /\ IF call.provider \in registered /\ Valid(call.url, Lookup(call.provider).hosts)
       THEN call' = [call EXCEPT !.pc = "resolve"] /\ UNCHANGED result
       ELSE Return("EndpointGuard")
    /\ UNCHANGED <<config, registered, service, dns, moved, sent, peer>>

\* The lookup of the guard, which may fail.
Resolve ==
    /\ call.pc = "resolve"
    /\ \/ \E answers \in Answers :
            /\ dns' = answers
            /\ IF AllPublic(answers)
               THEN call' = [call EXCEPT !.pc = "send"] /\ UNCHANGED result
               ELSE Return("EndpointGuard")
       \/ Return("EndpointGuard") /\ UNCHANGED dns
    /\ UNCHANGED <<config, registered, service, moved, sent, peer>>

\* The name may resolve to something else by the time the client connects.
DnsMoves ==
    /\ call.pc = "send" /\ ~moved
    /\ dns' \in Answers \ {dns}
    /\ moved' = TRUE
    /\ UNCHANGED <<config, registered, service, call, sent, peer, result>>

\* The client looks the host up again and connects to any of its addresses.
Send ==
    /\ call.pc = "send"
    /\ \/ Return("Network") /\ UNCHANGED <<sent, peer>>
       \/ /\ peer' \in dns
          /\ sent' = sent \cup {call.url.host}
          /\ call' = [call EXCEPT !.pc = "answer"]
          /\ UNCHANGED result
    /\ UNCHANGED <<config, registered, service, dns, moved>>

\* The answer, by its status.  A redirect is one of the refusals: it is not
\* followed.  The connection may also break.
Answer ==
    /\ call.pc = "answer"
    /\ \/ Return("Ok")
       \/ Return("Provider")
       \/ Return("Network")
       \/ call.op = "exchange" /\ Return("InvalidGrant")
    /\ UNCHANGED <<config, registered, service, dns, moved, sent, peer>>

\* The caller goes on with the result.
Finish ==
    /\ call.pc = "idle" /\ result # None
    /\ call' = NoCall /\ dns' = {} /\ moved' = FALSE
    /\ sent' = {} /\ peer' = None /\ result' = None
    /\ UNCHANGED <<config, registered, service>>

Next ==
    \/ BuildModule \/ Build
    \/ \E p \in Providers, op \in {"exchange", "fetch_identity"} : Begin(p, op)
    \/ Revalidate \/ Resolve \/ DnsMoves \/ Send \/ Answer \/ Finish

Spec == Init /\ [][Next]_vars

-----------------------------------------------------------------------------
(* What must hold of the outbound calls.                                   *)

\* Who answers for a host: the owner of its last two labels.
Zone(h) == SubSeq(h, Len(h) - 1, Len(h))
ZonesOf(p) ==
    CASE p \in {"gmail", "google_calendar"} -> {<<"google", "com">>, <<"googleapis", "com">>}
      [] p \in {"outlook", "microsoft_calendar"} ->
            {<<"microsoftonline", "com">>, <<"microsoft", "com">>, <<"office365", "com">>}
      [] OTHER -> {}

\* Whatever the overrides say, codes, client secrets and tokens are sent over
\* https only, on the default port, and only to hosts in the zones of the provider
\* whose account they are of (validate_endpoint at build and before each call).
SecretsStayHome ==
    sent # {} => /\ call.url.scheme = "https" /\ call.url.port \in {None, 443}
                 /\ \A h \in sent : Zone(h) \in ZonesOf(call.provider)

\* "A bad override yields no module, not a degraded one": what the transport re-checks
\* before a call was refused by the build already, so a call is refused there only where
\* the transport's own registry lacks the provider.
NoLateRefusal ==
    [][call.pc = "revalidate" /\ result' # None => call.provider \notin registered]_vars

\* The ranges no call may reach, as the registries state them: the first and the
\* last 16-bit prefix of each.
Within(hi, ranges) == \E r \in ranges : r[1] <= hi /\ hi <= r[2]
Prefix(a, b) == 256 * a + b
Private4 ==
    {<<Prefix(10, 0), Prefix(10, 255)>>, <<Prefix(100, 64), Prefix(100, 127)>>,
     <<Prefix(127, 0), Prefix(127, 255)>>, <<Prefix(169, 254), Prefix(169, 254)>>,
     <<Prefix(172, 16), Prefix(172, 31)>>, <<Prefix(192, 168), Prefix(192, 168)>>,
     <<Prefix(224, 0), Prefix(239, 255)>>}
Private6 == {<<64512, 65023>>, <<65152, 65215>>, <<65280, 65535>>}
Forbidden(a) ==
    \/ a.hi = 0 /\ a.lo = "zero"
    \/ a.kind = "v6" /\ (Within(a.hi, Private6) \/ (a.hi = 0 /\ a.lo = "one"))
    \/ a.kind # "v6" /\ (Within(a.hi, Private4) \/ (a.hi = 65535 /\ a.lo = "ones"))

\* A request reaches an address of a private range only if the name was pointed
\* elsewhere between the guard's lookup and the client's own: the mask arithmetic
\* agrees with the ranges, for IPv4, IPv6 and mapped addresses, and one forbidden
\* address among several is enough to refuse (assert_public_resolution).
PublicUnlessMoved == peer # None /\ ~moved => ~Forbidden(peer)

-----------------------------------------------------------------------------
(* What the documents say and the code does not do.                        *)

\* Every override a configuration names is validated before the module is built: a
\* service means that each leads to a host of its provider.  One named under a key that
\* is no registered provider is not looked at.
OverridesInForce ==
    service = "built" =>
       \A pk \in Overridden(config.overrides) :
          LET o == config.overrides[pk[1]][pk[2]] IN
          o # Garbage /\ o.host # IpLiteral /\ Zone(o.host) \in ZonesOf(pk[1])
=============================================================================
