-------------------------- MODULE OauthRequestProofs --------------------------
(***************************************************************************)
(* Proofs about one request on the OAuth surface, for form bodies of any   *)
(* length and of any pairs.                                                *)
(*                                                                         *)
(* The three properties speak of what was written or answered; the         *)
(* invariant says, stage by stage, what must have been checked to get      *)
(* there, so that nothing later in the request needs to look back.         *)
(***************************************************************************)
EXTENDS OauthRequest, TLAPS

Completing == {"parse", "verify", "fetch", "exchange", "lifetime", "identity", "audience",
               "email", "store", "activate"}

Requests == [verb : Verbs, principal : SUBSET Permissions \cup {None}, body : Bodies \cup {None}]

\* Each handler's stages are reached by its own verb only.
Placed ==
    /\ stage \in Stages
    /\ stage = "idle" => req = None
    /\ stage # "idle" => req \in Requests
    /\ stage \in {"auth", "permission"} => req.verb # "callback"
    /\ stage = "authorize" => req.verb = "authorize"
    /\ stage \in {"disconnect", "close"} => req.verb = "disconnect"
    /\ stage = "status" => req.verb = "status"
    /\ stage = "callback" => req.verb = "callback"
    /\ stage \in Completing => req.verb = "complete"

\* Past the permission check the principal holds the permission of its verb.
Allowed ==
    /\ req.principal # None
    /\ IF req.verb = "disconnect" THEN "delete" \in req.principal ELSE "write" \in req.principal
Permitted ==
    /\ stage = "permission" => req.principal # None
    /\ stage \in {"authorize", "disconnect", "close"} \cup Completing => Allowed

\* Nothing is touched before the stage that touches it.
Untouched ==
    /\ stage \notin {"close", "answered", "lifetime", "identity", "audience", "email",
                     "store", "activate"} => touched = {}
    /\ stage \in Completing \ {"activate"} => "store" \notin touched
    /\ stage # "answered" => answer = None

ClaimsRead ==
    /\ claims.identity \in Identity
    /\ claims.token \in IdToken \cup {None}
ReadsProven ==
    \A f \in {"aud", "nonce"} :
        /\ "ours" \in ReadsOf(f)
        /\ claims.identity[f] \in {"ours", None}
        /\ claims.token # None /\ claims.token.aud # "absent"
             => claims.token[f] \in {"ours", "OURS", None}
EmailProven ==
    /\ claims.identity.email \in IF bypass THEN Value ELSE {"ours", "OURS"}
    /\ claims.identity.verified # FALSE

\* The gauntlet is behind a request that stores.
Gauntlet ==
    /\ stage \in {"audience", "email"} => ClaimsRead
    /\ stage \in {"email", "store", "activate"} => ReadsProven
    /\ stage \in {"store", "activate"} => EmailProven

RequestInv ==
    /\ Placed /\ Permitted /\ Untouched /\ Gauntlet
    /\ TouchesNeedPermission /\ IdentityProven /\ RefusalLeavesStore

-----------------------------------------------------------------------------
(* The gauntlet's operators.                                               *)

LEMMA NoneApart == None \notin {"ours", "OURS", "other", "absent", "conflict"}
  BY RequestAssumption

\* Of two reads that merge to ours one is ours, and neither says anything else.
LEMMA MergedReads ==
    ASSUME NEW a \in Stated, NEW b \in Stated, MergeClaim(a, b) = "ours"
    PROVE  /\ a \in {"ours", None}
           /\ b \in {"ours", "OURS", None}
           /\ a = "ours" \/ b = "ours"
  BY NoneApart DEF MergeClaim, Fold, Stated, Value

\* An id_token with an audience is decoded as it is, one without not at all.
LEMMA TokenReads ==
    ASSUME ClaimsRead, NEW f \in {"aud", "nonce"}
    PROVE  /\ FromToken(f) \in Stated
           /\ claims.token # None /\ claims.token.aud # "absent" => FromToken(f) = claims.token[f]
           /\ FromToken(f) # None => claims.token # None /\ FromToken(f) = claims.token[f]
  <1> DEFINE t == claims.token
  <1>1. CASE t = None \/ t.aud = "absent"
    <2>1. FromToken(f) = None
      BY <1>1 DEF FromToken, DecodeIdToken
    <2> QED
      BY <1>1, <2>1 DEF Stated
  <1>2. CASE t # None /\ t.aud # "absent"
    <2>1. DecodeIdToken(t) = t
      BY <1>2 DEF DecodeIdToken
    <2>2. t \in IdToken
      BY <1>2 DEF ClaimsRead
    <2>3. t["aud"] \in Stated /\ t["nonce"] \in Stated
      BY <1>2, <2>2 DEF IdToken
    <2> QED
      BY <1>2, <2>1, <2>3 DEF FromToken
  <1> QED
    BY <1>1, <1>2

\* verify_audience_and_nonce lets through only what both sources, as far as they are
\* read, agree on.
LEMMA AudienceProves ==
    ASSUME ClaimsRead,
           MergeClaim(claims.identity.aud, FromToken("aud")) = "ours",
           MergeClaim(claims.identity.nonce, FromToken("nonce")) = "ours"
    PROVE  ReadsProven
  <1> SUFFICES ASSUME NEW f \in {"aud", "nonce"}
               PROVE  /\ "ours" \in ReadsOf(f)
                      /\ claims.identity[f] \in {"ours", None}
                      /\ claims.token # None /\ claims.token.aud # "absent"
                           => claims.token[f] \in {"ours", "OURS", None}
    BY DEF ReadsProven
  <1>1. claims.identity["aud"] \in Stated /\ claims.identity["nonce"] \in Stated
    BY DEF ClaimsRead, Identity
  <1>2. claims.identity[f] \in Stated /\ MergeClaim(claims.identity[f], FromToken(f)) = "ours"
    BY <1>1
  <1>3. FromToken(f) \in Stated
    BY TokenReads
  <1>4. /\ claims.identity[f] \in {"ours", None}
        /\ FromToken(f) \in {"ours", "OURS", None}
        /\ claims.identity[f] = "ours" \/ FromToken(f) = "ours"
    BY <1>2, <1>3, MergedReads
  <1>5. "ours" \in ReadsOf(f)
    <2>1. CASE claims.identity[f] = "ours"
      BY <2>1, NoneApart DEF ReadsOf
    <2>2. CASE FromToken(f) = "ours"
      <3>1. claims.token # None /\ claims.token[f] = "ours"
        BY <2>2, TokenReads, NoneApart
      <3> QED
        BY <3>1, NoneApart DEF ReadsOf
    <2> QED
      BY <1>4, <2>1, <2>2
  <1> QED
    BY <1>4, <1>5, TokenReads

\* verify_email_match lets through only the account's e-mail, or any under the bypass.
LEMMA EmailProves ==
    ASSUME ClaimsRead, EmailPasses(claims.identity)
    PROVE  EmailProven
  <1>1. claims.identity.email \in Stated
    BY DEF ClaimsRead, Identity
  <1>2. claims.identity.email \in Value
    BY <1>1 DEF EmailPasses, Stated
  <1>3. ~bypass => claims.identity.email \in {"ours", "OURS"}
    BY <1>2 DEF EmailPasses, Fold, Value
  <1>4. claims.identity.verified # FALSE
    BY DEF EmailPasses
  <1> QED
    BY <1>2, <1>3, <1>4 DEF EmailProven

\* What the three properties say once the gauntlet's outcome has a name.
LEMMA ProvenMeans ==
    IdentityProven <=>
      (req # None /\ req.verb = "complete" /\ "store" \in touched => ReadsProven /\ EmailProven)
  BY DEF IdentityProven, Stores, ReadsProven, EmailProven

LEMMA ProvenMeansNext ==
    IdentityProven' <=>
      (req' # None /\ req'.verb = "complete" /\ "store" \in touched'
         => ReadsProven' /\ EmailProven')
  BY DEF IdentityProven, Stores, ReadsProven, EmailProven

LEMMA ClaimsKept ==
    ASSUME claims' = claims, bypass' = bypass
    PROVE  /\ ReadsProven' <=> ReadsProven
           /\ EmailProven' <=> EmailProven
           /\ ClaimsRead' <=> ClaimsRead
  BY DEF ReadsProven, EmailProven, ClaimsRead, ReadsOf

-----------------------------------------------------------------------------
(* One step per action that leaves the claims alone.                       *)

LEMMA RequirePrincipalKeeps ==
    ASSUME RequestInv, RequirePrincipal
    PROVE  RequestInv'
  <1>0. claims' = claims /\ bypass' = bypass /\ req' = req
    BY DEF RequirePrincipal, Goto, Answer
  <1>1. /\ ReadsProven' <=> ReadsProven
        /\ EmailProven' <=> EmailProven
        /\ ClaimsRead' <=> ClaimsRead
    BY <1>0, ClaimsKept
  <1>2. Placed' /\ Permitted' /\ Untouched'
    BY <1>0 DEF RequirePrincipal, Goto, Answer, RequestInv, Placed, Permitted, Untouched,
                Allowed, Completing, Verbs, Stages
  <1>3. Gauntlet'
    BY <1>0, <1>1 DEF RequirePrincipal, Goto, Answer, RequestInv, Gauntlet
  <1>4. TouchesNeedPermission'
    BY <1>0 DEF RequirePrincipal, RequestInv, Placed, Permitted, Untouched, Completing,
                TouchesNeedPermission, Allowed
  <1>5. IdentityProven'
    BY <1>0, <1>1, ProvenMeans, ProvenMeansNext
    DEF RequirePrincipal, RequestInv, Placed, Gauntlet, Completing
  <1>6. RefusalLeavesStore'
    BY <1>0 DEF RequirePrincipal, Goto, Answer, RequestInv, Placed, Untouched, Completing,
                RefusalLeavesStore
  <1> QED
    BY <1>2, <1>3, <1>4, <1>5, <1>6 DEF RequestInv

LEMMA CheckPermissionKeeps ==
    ASSUME RequestInv, CheckPermission
    PROVE  RequestInv'
  <1>0. claims' = claims /\ bypass' = bypass /\ req' = req
    BY DEF CheckPermission, Goto, Answer
  <1>1. /\ ReadsProven' <=> ReadsProven
        /\ EmailProven' <=> EmailProven
        /\ ClaimsRead' <=> ClaimsRead
    BY <1>0, ClaimsKept
  <1>2. /\ stage = "permission" /\ req.verb \in Verbs \ {"callback"} /\ req.principal # None
        /\ touched' = touched /\ touched = {} /\ answer = None
    BY DEF CheckPermission, RequestInv, Placed, Permitted, Untouched, Requests
  <1>3. ASSUME Has(req.principal, req.verb)
        PROVE  Placed' /\ Permitted' /\ Untouched' /\ Gauntlet'
    <2>1. /\ answer' = answer
          /\ stage' = IF req.verb = "complete" THEN "parse" ELSE req.verb
      BY <1>3 DEF CheckPermission, Goto
    <2>2. /\ req.verb \in {"authorize", "complete"} => "write" \in req.principal
          /\ req.verb = "disconnect" => "delete" \in req.principal
      BY <1>3 DEF Has
    <2>3. \/ req.verb = "authorize" /\ stage' = "authorize"
          \/ req.verb = "complete" /\ stage' = "parse"
          \/ req.verb = "disconnect" /\ stage' = "disconnect"
          \/ req.verb = "status" /\ stage' = "status"
      BY <1>2, <2>1 DEF Verbs
    <2>4. Placed'
      BY <1>0, <1>2, <2>3 DEF RequestInv, Placed, Completing, Stages
    <2>5. Permitted'
      BY <1>0, <1>2, <2>2, <2>3 DEF Permitted, Allowed, Completing
    <2> QED
      BY <1>2, <2>1, <2>3, <2>4, <2>5 DEF Untouched, Gauntlet, Completing
  <1>4. ASSUME ~Has(req.principal, req.verb)
        PROVE  Placed' /\ Permitted' /\ Untouched' /\ Gauntlet'
    <2>1. stage' = "answered"
      BY <1>4 DEF CheckPermission, Answer
    <2> QED
      BY <1>0, <1>2, <2>1 DEF RequestInv, Placed, Permitted, Untouched, Gauntlet, Completing,
                              Stages
  <1>5. Placed' /\ Permitted' /\ Untouched' /\ Gauntlet'
    BY <1>3, <1>4
  <1>6. TouchesNeedPermission'
    BY <1>0 DEF CheckPermission, RequestInv, Placed, Permitted, Untouched, Completing,
                TouchesNeedPermission, Allowed
  <1>7. IdentityProven'
    BY <1>0, <1>1, ProvenMeans, ProvenMeansNext
    DEF CheckPermission, RequestInv, Placed, Gauntlet, Completing
  <1>8. RefusalLeavesStore'
    BY <1>0 DEF CheckPermission, Goto, Answer, RequestInv, Placed, Untouched, Completing,
                RefusalLeavesStore
  <1> QED
    BY <1>5, <1>6, <1>7, <1>8 DEF RequestInv

LEMMA AuthorizeKeeps ==
    ASSUME RequestInv, Authorize
    PROVE  RequestInv'
  <1>0. claims' = claims /\ bypass' = bypass /\ req' = req
    BY DEF Authorize, Answer, Reject
  <1>1. /\ ReadsProven' <=> ReadsProven
        /\ EmailProven' <=> EmailProven
        /\ ClaimsRead' <=> ClaimsRead
    BY <1>0, ClaimsKept
  <1>2. Placed' /\ Permitted' /\ Untouched'
    BY <1>0 DEF Authorize, Answer, Reject, Touch, RequestInv, Placed, Permitted, Untouched,
                Allowed, Completing, Verbs, Stages
  <1>3. Gauntlet'
    BY <1>0, <1>1 DEF Authorize, Answer, Reject, RequestInv, Gauntlet
  <1>4. TouchesNeedPermission'
    BY <1>0 DEF Authorize, Touch, RequestInv, Placed, Permitted, Untouched, Completing,
                TouchesNeedPermission, Allowed
  <1>5. IdentityProven'
    BY <1>0, <1>1, ProvenMeans, ProvenMeansNext
    DEF Authorize, Touch, RequestInv, Placed, Gauntlet, Completing
  <1>6. RefusalLeavesStore'
    BY <1>0 DEF Authorize, Answer, Reject, Touch, HttpOf, RequestInv, Placed, Untouched,
                Completing, RefusalLeavesStore
  <1> QED
    BY <1>2, <1>3, <1>4, <1>5, <1>6 DEF RequestInv

LEMMA DisconnectKeeps ==
    ASSUME RequestInv, Disconnect
    PROVE  RequestInv'
  <1>0. claims' = claims /\ bypass' = bypass /\ req' = req
    BY DEF Disconnect, Goto, Answer, Reject
  <1>1. /\ ReadsProven' <=> ReadsProven
        /\ EmailProven' <=> EmailProven
        /\ ClaimsRead' <=> ClaimsRead
    BY <1>0, ClaimsKept
  <1>2. Placed' /\ Permitted' /\ Untouched'
    BY <1>0 DEF Disconnect, Goto, Answer, Reject, Touch, RequestInv, Placed, Permitted,
                Untouched, Allowed, Completing, Verbs, Stages
  <1>3. Gauntlet'
    BY <1>0, <1>1 DEF Disconnect, Goto, Answer, Reject, RequestInv, Gauntlet
  <1>4. TouchesNeedPermission'
    BY <1>0 DEF Disconnect, Touch, RequestInv, Placed, Permitted, Untouched, Completing,
                TouchesNeedPermission, Allowed
  <1>5. IdentityProven'
    BY <1>0, <1>1, ProvenMeans, ProvenMeansNext
    DEF Disconnect, Touch, RequestInv, Placed, Gauntlet, Completing
  <1>6. RefusalLeavesStore'
    BY <1>0 DEF Disconnect, Goto, Answer, Reject, Touch, HttpOf, RequestInv, Placed, Untouched,
                Completing, RefusalLeavesStore
  <1> QED
    BY <1>2, <1>3, <1>4, <1>5, <1>6 DEF RequestInv

LEMMA DisconnectCloseKeeps ==
    ASSUME RequestInv, DisconnectClose
    PROVE  RequestInv'
  <1>0. claims' = claims /\ bypass' = bypass /\ req' = req
    BY DEF DisconnectClose, Answer, Reject
  <1>1. /\ ReadsProven' <=> ReadsProven
        /\ EmailProven' <=> EmailProven
        /\ ClaimsRead' <=> ClaimsRead
    BY <1>0, ClaimsKept
  <1>2. Placed' /\ Permitted' /\ Untouched'
    BY <1>0 DEF DisconnectClose, Answer, Reject, Touch, RequestInv, Placed, Permitted,
                Untouched, Allowed, Completing, Verbs, Stages
  <1>3. Gauntlet'
    BY <1>0, <1>1 DEF DisconnectClose, Answer, Reject, RequestInv, Gauntlet
  <1>4. TouchesNeedPermission'
    BY <1>0 DEF DisconnectClose, Touch, RequestInv, Placed, Permitted, Untouched, Completing,
                TouchesNeedPermission, Allowed
  <1>5. IdentityProven'
    BY <1>0, <1>1, ProvenMeans, ProvenMeansNext
    DEF DisconnectClose, Touch, RequestInv, Placed, Gauntlet, Completing
  <1>6. RefusalLeavesStore'
    BY <1>0 DEF DisconnectClose, Answer, Reject, Touch, HttpOf, RequestInv, Placed, Untouched,
                Completing, RefusalLeavesStore
  <1> QED
    BY <1>2, <1>3, <1>4, <1>5, <1>6 DEF RequestInv

LEMMA StatusKeeps ==
    ASSUME RequestInv, Status
    PROVE  RequestInv'
  <1>0. claims' = claims /\ bypass' = bypass /\ req' = req
    BY DEF Status, Answer, Reject
  <1>1. /\ ReadsProven' <=> ReadsProven
        /\ EmailProven' <=> EmailProven
        /\ ClaimsRead' <=> ClaimsRead
    BY <1>0, ClaimsKept
  <1>2. Placed' /\ Permitted' /\ Untouched'
    BY <1>0 DEF Status, Answer, Reject, RequestInv, Placed, Permitted, Untouched, Allowed,
                Completing, Verbs, Stages
  <1>3. Gauntlet'
    BY <1>0, <1>1 DEF Status, Answer, Reject, RequestInv, Gauntlet
  <1>4. TouchesNeedPermission'
    BY <1>0 DEF Status, RequestInv, Placed, Permitted, Untouched, Completing,
                TouchesNeedPermission, Allowed
  <1>5. IdentityProven'
    BY <1>0, <1>1, ProvenMeans, ProvenMeansNext
    DEF Status, RequestInv, Placed, Gauntlet, Completing
  <1>6. RefusalLeavesStore'
    BY <1>0 DEF Status, Answer, Reject, HttpOf, RequestInv, Placed, Untouched, Completing,
                RefusalLeavesStore
  <1> QED
    BY <1>2, <1>3, <1>4, <1>5, <1>6 DEF RequestInv

LEMMA CallbackKeeps ==
    ASSUME RequestInv, Callback
    PROVE  RequestInv'
  <1>0. claims' = claims /\ bypass' = bypass /\ req' = req
    BY DEF Callback, CallbackPage, Answer
  <1>1. /\ ReadsProven' <=> ReadsProven
        /\ EmailProven' <=> EmailProven
        /\ ClaimsRead' <=> ClaimsRead
    BY <1>0, ClaimsKept
  <1>2. Placed' /\ Permitted' /\ Untouched'
    BY <1>0 DEF Callback, CallbackPage, Answer, RequestInv, Placed, Permitted, Untouched,
                Allowed, Completing, Verbs, Stages
  <1>3. Gauntlet'
    BY <1>0, <1>1 DEF Callback, CallbackPage, Answer, RequestInv, Gauntlet
  <1>4. TouchesNeedPermission'
    BY <1>0 DEF Callback, CallbackPage, RequestInv, Placed, Permitted, Untouched, Completing,
                TouchesNeedPermission, Allowed
  <1>5. IdentityProven'
    BY <1>0, <1>1, ProvenMeans, ProvenMeansNext
    DEF Callback, CallbackPage, RequestInv, Placed, Gauntlet, Completing
  <1>6. RefusalLeavesStore'
    BY <1>0 DEF Callback, CallbackPage, Answer, RequestInv, Placed, Untouched, Completing,
                RefusalLeavesStore
  <1> QED
    BY <1>2, <1>3, <1>4, <1>5, <1>6 DEF RequestInv

LEMMA VerifyStateKeeps ==
    ASSUME RequestInv, VerifyState
    PROVE  RequestInv'
  <1>0. claims' = claims /\ bypass' = bypass /\ req' = req
    BY DEF VerifyState, Goto, Answer, Reject
  <1>1. /\ ReadsProven' <=> ReadsProven
        /\ EmailProven' <=> EmailProven
        /\ ClaimsRead' <=> ClaimsRead
    BY <1>0, ClaimsKept
  <1>2. Placed' /\ Permitted' /\ Untouched'
    BY <1>0 DEF VerifyState, Goto, Answer, Reject, RequestInv, Placed, Permitted, Untouched,
                Allowed, Completing, Verbs, Stages
  <1>3. Gauntlet'
    BY <1>0, <1>1 DEF VerifyState, Goto, Answer, Reject, RequestInv, Gauntlet
  <1>4. TouchesNeedPermission'
    BY <1>0 DEF VerifyState, RequestInv, Placed, Permitted, Untouched, Completing,
                TouchesNeedPermission, Allowed
  <1>5. IdentityProven'
    BY <1>0, <1>1, ProvenMeans, ProvenMeansNext
    DEF VerifyState, RequestInv, Placed, Gauntlet, Completing
  <1>6. RefusalLeavesStore'
    BY <1>0 DEF VerifyState, Goto, Answer, Reject, HttpOf, RequestInv, Placed, Untouched,
                Completing, RefusalLeavesStore
  <1> QED
    BY <1>2, <1>3, <1>4, <1>5, <1>6 DEF RequestInv

LEMMA FetchPendingKeeps ==
    ASSUME RequestInv, FetchPending
    PROVE  RequestInv'
  <1>0. claims' = claims /\ bypass' = bypass /\ req' = req
    BY DEF FetchPending, Goto, Answer, Reject
  <1>1. /\ ReadsProven' <=> ReadsProven
        /\ EmailProven' <=> EmailProven
        /\ ClaimsRead' <=> ClaimsRead
    BY <1>0, ClaimsKept
  <1>2. Placed' /\ Permitted' /\ Untouched'
    BY <1>0 DEF FetchPending, Goto, Answer, Reject, RequestInv, Placed, Permitted, Untouched,
                Allowed, Completing, Verbs, Stages
  <1>3. Gauntlet'
    BY <1>0, <1>1 DEF FetchPending, Goto, Answer, Reject, RequestInv, Gauntlet
  <1>4. TouchesNeedPermission'
    BY <1>0 DEF FetchPending, RequestInv, Placed, Permitted, Untouched, Completing,
                TouchesNeedPermission, Allowed
  <1>5. IdentityProven'
    BY <1>0, <1>1, ProvenMeans, ProvenMeansNext
    DEF FetchPending, RequestInv, Placed, Gauntlet, Completing
  <1>6. RefusalLeavesStore'
    BY <1>0 DEF FetchPending, Goto, Answer, Reject, HttpOf, RequestInv, Placed, Untouched,
                Completing, RefusalLeavesStore
  <1> QED
    BY <1>2, <1>3, <1>4, <1>5, <1>6 DEF RequestInv

LEMMA ExchangeCodeKeeps ==
    ASSUME RequestInv, ExchangeCode
    PROVE  RequestInv'
  <1>0. claims' = claims /\ bypass' = bypass /\ req' = req
    BY DEF ExchangeCode, Goto, Answer, Reject
  <1>1. /\ ReadsProven' <=> ReadsProven
        /\ EmailProven' <=> EmailProven
        /\ ClaimsRead' <=> ClaimsRead
    BY <1>0, ClaimsKept
  <1>2. Placed' /\ Permitted' /\ Untouched'
    BY <1>0 DEF ExchangeCode, Goto, Answer, Reject, Touch, RequestInv, Placed, Permitted,
                Untouched, Allowed, Completing, Verbs, Stages
  <1>3. Gauntlet'
    BY <1>0, <1>1 DEF ExchangeCode, Goto, Answer, Reject, RequestInv, Gauntlet
  <1>4. TouchesNeedPermission'
    BY <1>0 DEF ExchangeCode, Touch, RequestInv, Placed, Permitted, Untouched, Completing,
                TouchesNeedPermission, Allowed
  <1>5. IdentityProven'
    BY <1>0, <1>1, ProvenMeans, ProvenMeansNext
    DEF ExchangeCode, Touch, RequestInv, Placed, Gauntlet, Completing
  <1>6. RefusalLeavesStore'
    BY <1>0 DEF ExchangeCode, Goto, Answer, Reject, Touch, HttpOf, RequestInv, Placed,
                Untouched, Completing, RefusalLeavesStore
  <1> QED
    BY <1>2, <1>3, <1>4, <1>5, <1>6 DEF RequestInv

LEMMA CheckLifetimeKeeps ==
    ASSUME RequestInv, CheckLifetime
    PROVE  RequestInv'
  <1>0. claims' = claims /\ bypass' = bypass /\ req' = req
    BY DEF CheckLifetime, Goto, Answer, Reject
  <1>1. /\ ReadsProven' <=> ReadsProven
        /\ EmailProven' <=> EmailProven
        /\ ClaimsRead' <=> ClaimsRead
    BY <1>0, ClaimsKept
  <1>2. Placed' /\ Permitted' /\ Untouched'
    BY <1>0 DEF CheckLifetime, Goto, Answer, Reject, RequestInv, Placed, Permitted, Untouched,
                Allowed, Completing, Verbs, Stages
  <1>3. Gauntlet'
    BY <1>0, <1>1 DEF CheckLifetime, Goto, Answer, Reject, RequestInv, Gauntlet
  <1>4. TouchesNeedPermission'
    BY <1>0 DEF CheckLifetime, RequestInv, Placed, Permitted, Untouched, Completing,
                TouchesNeedPermission, Allowed
  <1>5. IdentityProven'
    BY <1>0, <1>1, ProvenMeans, ProvenMeansNext
    DEF CheckLifetime, RequestInv, Placed, Gauntlet, Completing
  <1>6. RefusalLeavesStore'
    BY <1>0 DEF CheckLifetime, Goto, Answer, Reject, HttpOf, RequestInv, Placed, Untouched,
                Completing, RefusalLeavesStore
  <1> QED
    BY <1>2, <1>3, <1>4, <1>5, <1>6 DEF RequestInv

LEMMA StoreBundleKeeps ==
    ASSUME RequestInv, StoreBundle
    PROVE  RequestInv'
  <1>0. claims' = claims /\ bypass' = bypass /\ req' = req
    BY DEF StoreBundle, Goto, Answer, Reject
  <1>1. /\ ReadsProven' <=> ReadsProven
        /\ EmailProven' <=> EmailProven
        /\ ClaimsRead' <=> ClaimsRead
    BY <1>0, ClaimsKept
  <1>2. Placed' /\ Permitted' /\ Untouched'
    BY <1>0 DEF StoreBundle, Goto, Answer, Reject, Touch, RequestInv, Placed, Permitted,
                Untouched, Allowed, Completing, Verbs, Stages
  <1>3. Gauntlet'
    BY <1>0, <1>1 DEF StoreBundle, Goto, Answer, Reject, RequestInv, Gauntlet
  <1>4. TouchesNeedPermission'
    BY <1>0 DEF StoreBundle, Touch, RequestInv, Placed, Permitted, Untouched, Completing,
                TouchesNeedPermission, Allowed
  <1>5. IdentityProven'
    BY <1>0, <1>1, ProvenMeans, ProvenMeansNext
    DEF StoreBundle, Touch, RequestInv, Placed, Gauntlet, Completing
  <1>6. RefusalLeavesStore'
    BY <1>0 DEF StoreBundle, Goto, Answer, Reject, Touch, HttpOf, RequestInv, Placed,
                Untouched, Completing, RefusalLeavesStore
  <1> QED
    BY <1>2, <1>3, <1>4, <1>5, <1>6 DEF RequestInv

LEMMA ActivateKeeps ==
    ASSUME RequestInv, Activate
    PROVE  RequestInv'
  <1>0. claims' = claims /\ bypass' = bypass /\ req' = req
    BY DEF Activate, Answer, Reject
  <1>1. /\ ReadsProven' <=> ReadsProven
        /\ EmailProven' <=> EmailProven
        /\ ClaimsRead' <=> ClaimsRead
    BY <1>0, ClaimsKept
  <1>2. Placed' /\ Permitted' /\ Untouched'
    BY <1>0 DEF Activate, Answer, Reject, Touch, RequestInv, Placed, Permitted, Untouched,
                Allowed, Completing, Verbs, Stages
  <1>3. Gauntlet'
    BY <1>0, <1>1 DEF Activate, Answer, Reject, RequestInv, Gauntlet
  <1>4. TouchesNeedPermission'
    BY <1>0 DEF Activate, Touch, RequestInv, Placed, Permitted, Untouched, Completing,
                TouchesNeedPermission, Allowed
  <1>5. IdentityProven'
    BY <1>0, <1>1, ProvenMeans, ProvenMeansNext
    DEF Activate, Touch, RequestInv, Placed, Gauntlet, Completing
  <1>6. RefusalLeavesStore'
    BY <1>0 DEF Activate, Answer, Reject, Touch, HttpOf, RequestInv, Placed, Untouched,
                Completing, RefusalLeavesStore
  <1> QED
    BY <1>2, <1>3, <1>4, <1>5, <1>6 DEF RequestInv

\* parse_complete only forgets the body.
LEMMA ParseCompleteKeeps ==
    ASSUME RequestInv, ParseComplete
    PROVE  RequestInv'
  <1>0. /\ claims' = claims /\ bypass' = bypass /\ stage = "parse"
        /\ touched' = touched /\ touched = {} /\ answer = None
    BY DEF ParseComplete, Reject, Answer, RequestInv, Untouched
  <1>1. (stage' = "verify" /\ answer' = None) \/ stage' = "answered"
    BY <1>0 DEF ParseComplete, Reject, Answer
  <1>2. /\ req'.verb = req.verb /\ req'.principal = req.principal
        /\ req' \in Requests
    <2>1. req \in Requests
      BY <1>0 DEF RequestInv, Placed
    <2>2. req' = [req EXCEPT !.body = None] \/ req' = req
      BY DEF ParseComplete, Reject, Answer
    <2> QED
      BY <2>1, <2>2 DEF Requests
  <1>3. req.verb = "complete" /\ Allowed
    BY <1>0 DEF RequestInv, Placed, Permitted, Completing
  <1>4. Placed' /\ Permitted' /\ Untouched' /\ Gauntlet'
    BY <1>0, <1>1, <1>2, <1>3
    DEF Placed, Permitted, Untouched, Gauntlet, Allowed, Completing, Verbs, Stages
  <1>5. TouchesNeedPermission' /\ IdentityProven' /\ RefusalLeavesStore'
    BY <1>0 DEF TouchesNeedPermission, IdentityProven, Stores, RefusalLeavesStore
  <1> QED
    BY <1>4, <1>5 DEF RequestInv

\* The claims come in before anything is stored.
LEMMA FetchIdentityKeeps ==
    ASSUME RequestInv, FetchIdentity
    PROVE  RequestInv'
  <1>0. /\ req' = req /\ stage = "identity" /\ touched' = touched /\ "store" \notin touched
        /\ answer = None
    BY DEF FetchIdentity, Reject, Answer, RequestInv, Untouched, Completing
  <1>1. req.verb = "complete" /\ Allowed
    BY <1>0 DEF RequestInv, Placed, Permitted, Completing
  <1>2. CASE Reject("Transport")
    <2>1. stage' = "answered"
      BY <1>2 DEF Reject, Answer
    <2> QED
      BY <1>0, <1>1, <2>1 DEF Placed, Permitted, Untouched, Gauntlet, Allowed, Completing, Verbs,
         Stages, TouchesNeedPermission, IdentityProven, Stores, RefusalLeavesStore, RequestInv
  <1>3. CASE ~Reject("Transport")
    <2>1. PICK i \in Identity, t \in IdToken \cup {None} : claims' = [identity |-> i, token |-> t]
      BY <1>3 DEF FetchIdentity
    <2>2. stage' = "audience" /\ answer' = None
      BY <1>0, <1>3 DEF FetchIdentity
    <2>3. ClaimsRead'
      BY <2>1 DEF ClaimsRead
    <2> QED
      BY <1>0, <1>1, <2>2, <2>3 DEF Placed, Permitted, Untouched, Gauntlet, Allowed, Completing,
         Verbs, Stages, TouchesNeedPermission, IdentityProven, Stores, RefusalLeavesStore, RequestInv
  <1> QED
    BY <1>2, <1>3

\* A check of the gauntlet: on to the next with what it has shown, or refused.
LEMMA CheckKeeps ==
    ASSUME RequestInv, stage \in {"audience", "email"}, touched' = touched,
           NEW s \in {"email", "store"},
           \/ Reject("Identity")
           \/ /\ Goto(s) /\ ClaimsRead /\ ReadsProven
              /\ s = "store" => EmailProven
    PROVE  RequestInv'
  <1>0. /\ claims' = claims /\ bypass' = bypass /\ req' = req
        /\ "store" \notin touched /\ answer = None
    BY DEF Reject, Answer, Goto, RequestInv, Untouched, Completing
  <1>1. /\ ReadsProven' <=> ReadsProven
        /\ EmailProven' <=> EmailProven
        /\ ClaimsRead' <=> ClaimsRead
    BY <1>0, ClaimsKept
  <1>2. req.verb = "complete" /\ Allowed
    BY DEF RequestInv, Placed, Permitted, Completing
  <1>3. \/ stage' = "answered"
        \/ /\ stage' = s /\ answer' = None /\ ClaimsRead /\ ReadsProven
           /\ s = "store" => EmailProven
    BY <1>0 DEF Reject, Answer, Goto
  <1>4. Placed' /\ Permitted' /\ Untouched' /\ Gauntlet'
    BY <1>0, <1>1, <1>2, <1>3
    DEF RequestInv, Placed, Permitted, Untouched, Gauntlet, Allowed, Completing, Verbs, Stages
  <1>5. TouchesNeedPermission' /\ IdentityProven' /\ RefusalLeavesStore'
    BY <1>0, <1>2 DEF TouchesNeedPermission, IdentityProven, Stores, RefusalLeavesStore, Allowed
  <1> QED
    BY <1>4, <1>5 DEF RequestInv

LEMMA CheckAudienceKeeps ==
    ASSUME RequestInv, CheckAudience
    PROVE  RequestInv'
  <1>1. stage = "audience" /\ touched' = touched /\ ClaimsRead
    BY DEF CheckAudience, RequestInv, Gauntlet
  <1>2. Reject("Identity") \/ (Goto("email") /\ ReadsProven)
    BY <1>1, AudienceProves DEF CheckAudience
  <1> QED
    BY <1>1, <1>2, CheckKeeps

LEMMA CheckEmailKeeps ==
    ASSUME RequestInv, CheckEmail
    PROVE  RequestInv'
  <1>1. stage = "email" /\ touched' = touched /\ ClaimsRead /\ ReadsProven
    BY DEF CheckEmail, RequestInv, Gauntlet
  <1>2. Reject("Identity") \/ (Goto("store") /\ EmailProven)
    BY <1>1, EmailProves DEF CheckEmail
  <1> QED
    BY <1>1, <1>2, CheckKeeps

\* A request that arrives, and one that is answered and gone, has touched nothing.
LEMMA EndsKeep ==
    ASSUME RequestInv,
           \/ \E v \in Verbs, p \in SUBSET Permissions \cup {None}, b \in Bodies \cup {None} :
                Arrive(v, p, b)
           \/ Finish
    PROVE  RequestInv'
  <1>1. CASE Finish
    <2>1. stage' = "idle" /\ req' = None /\ touched' = {} /\ answer' = None
      BY <1>1 DEF Finish
    <2> QED
      BY <2>1 DEF Placed, Permitted, Untouched, Gauntlet, Completing, Stages,
                  TouchesNeedPermission, IdentityProven, Stores, RefusalLeavesStore, RequestInv
  <1>2. ASSUME NEW v \in Verbs, NEW p \in SUBSET Permissions \cup {None},
               NEW b \in Bodies \cup {None}, Arrive(v, p, b)
        PROVE  RequestInv'
    <2>1. /\ req' = [verb |-> v, principal |-> p, body |-> b]
          /\ stage' = IF v = "callback" THEN "callback" ELSE "auth"
          /\ touched' = {} /\ answer' = None
      BY <1>2 DEF Arrive, RequestInv, Untouched
    <2>2. req'.verb = v /\ req' \in Requests
      BY <2>1 DEF Requests
    <2> QED
      BY <2>1, <2>2 DEF Placed, Permitted, Untouched, Gauntlet, Completing, Stages,
                  TouchesNeedPermission, IdentityProven, Stores, RefusalLeavesStore, RequestInv
  <1> QED
    BY <1>1, <1>2

-----------------------------------------------------------------------------
(* What it gives.                                                          *)

\* RequestInv is an invariant of the surface.
THEOREM RequestInvariant == Spec => []RequestInv
  <1>1. Init => RequestInv
    BY DEF Init, Placed, Permitted, Untouched, Gauntlet, Completing, Stages,
           TouchesNeedPermission, IdentityProven, Stores, RefusalLeavesStore, RequestInv
  <1>2. RequestInv /\ UNCHANGED vars => RequestInv'
    <2> SUFFICES ASSUME RequestInv, UNCHANGED vars PROVE RequestInv'
      OBVIOUS
    <2>1. /\ stage' = stage /\ req' = req /\ bypass' = bypass /\ claims' = claims
          /\ touched' = touched /\ raced' = raced /\ answer' = answer
      BY DEF vars
    <2>2. /\ ReadsProven' <=> ReadsProven
          /\ EmailProven' <=> EmailProven
          /\ ClaimsRead' <=> ClaimsRead
      BY <2>1, ClaimsKept
    <2>3. Placed' /\ Permitted' /\ Untouched' /\ Gauntlet'
      BY <2>1, <2>2 DEF RequestInv, Placed, Permitted, Allowed, Untouched, Gauntlet
    <2>4. IdentityProven'
      BY <2>1, <2>2, ProvenMeans, ProvenMeansNext DEF RequestInv
    <2>5. TouchesNeedPermission' /\ RefusalLeavesStore'
      BY <2>1 DEF RequestInv, TouchesNeedPermission, RefusalLeavesStore
    <2> QED
      BY <2>3, <2>4, <2>5 DEF RequestInv
  <1>3. RequestInv /\ Next => RequestInv'
    BY RequirePrincipalKeeps, CheckPermissionKeeps, ParseCompleteKeeps, AuthorizeKeeps,
       DisconnectKeeps, DisconnectCloseKeeps, StatusKeeps, CallbackKeeps, VerifyStateKeeps,
       FetchPendingKeeps, ExchangeCodeKeeps, CheckLifetimeKeeps, FetchIdentityKeeps,
       CheckAudienceKeeps, CheckEmailKeeps, StoreBundleKeeps, ActivateKeeps, EndsKeep
    DEF Next
  <1>4. RequestInv /\ [Next]_vars => RequestInv'
    BY <1>2, <1>3
  <1> QED
    BY <1>1, <1>4, PTL DEF Spec

\* Nothing is written and no provider is called for a principal without the permission
\* of the route it came by.
THEOREM PermissionComesFirst == Spec => []TouchesNeedPermission
  <1>1. RequestInv => TouchesNeedPermission
    BY DEF RequestInv
  <1> QED
    BY RequestInvariant, <1>1, PTL

\* complete hands the store no bundle of an unproven identity, whatever the provider's
\* two sources of claims say.
THEOREM IdentityComesFirst == Spec => []IdentityProven
  <1>1. RequestInv => IdentityProven
    BY DEF RequestInv
  <1> QED
    BY RequestInvariant, <1>1, PTL

\* A completion answered with a 4xx has left the store alone, unless it lost the race
\* for the pending row.
THEOREM RefusalIsClean == Spec => []RefusalLeavesStore
  <1>1. RequestInv => RefusalLeavesStore
    BY DEF RequestInv
  <1> QED
    BY RequestInvariant, <1>1, PTL
=============================================================================
