---------------------------- MODULE OauthRequest ----------------------------
(***************************************************************************)
(* One request on the OAuth surface, from the auth layer to its HTTP       *)
(* answer: the handlers of oauth_handler, and inside complete the checks   *)
(* of the code exchange and the identity gauntlet.  What other requests do *)
(* to the rows meanwhile is a nondeterministic outcome of each statement   *)
(* (OAuthFlow has the rows themselves).                                    *)
(*                                                                         *)
(* A claim is one of three values: ours as we spell it, ours in another    *)
(* case, or somebody else's.                                               *)
(***************************************************************************)
EXTENDS Naturals, Sequences, FiniteSets

CONSTANTS
    Pairs,      \* what a form body may consist of: [key, eq, empty]
    MaxPairs,   \* the longest form body
    None

ASSUME RequestAssumption ==
    /\ Pairs \subseteq [key : {"code", "state", "other"}, eq : BOOLEAN, empty : BOOLEAN]
    /\ MaxPairs \in Nat
    \* What is not stated is none of the values a claim can have.
    /\ None \notin {"ours", "OURS", "other", "absent", "conflict"}

VARIABLES
    stage,    \* where the request is
    req,      \* the request
    bypass,   \* shared_mailbox_bypass of the deployment
    claims,   \* what the provider said of the token's subject
    touched,  \* what it has written (rows, store) or whom it called (provider)
    raced,    \* another request has taken the pending row
    answer    \* HTTP status and code
vars == <<stage, req, bypass, claims, touched, raced, answer>>

Verbs == {"authorize", "callback", "complete", "disconnect", "status"}
Permissions == {"write", "delete"}
Forms == UNION {[1..n -> Pairs] : n \in 1..MaxPairs}
\* Of a JSON body only whether it has both fields matters.
Bodies == [json : {TRUE}, whole : BOOLEAN] \cup [json : {FALSE}, form : Forms]

Value == {"ours", "OURS", "other"}
Stated == Value \cup {None}
Fold(v) == IF v = "OURS" THEN "ours" ELSE v
\* The identity endpoint's claims, and the id_token's.  An audience can be absent
\* or, as None, there in a form that is not read.
Identity == [aud : Stated, nonce : Stated, email : Stated, verified : {TRUE, FALSE, None}]
IdToken == [aud : Stated \cup {"absent"}, nonce : Stated]

Errors == {"Invalid", "State", "Identity", "Unstoreable", "NotFound",
           "ProviderUnconfigured", "Transport", "Store", "Db"}

\* IntoResponse for OauthError.
HttpOf(e) ==
    CASE e \in {"Invalid", "State", "Identity"}     -> 400
      [] e = "NotFound"                             -> 404
      [] e = "Db"                                   -> 500
      [] e \in {"Unstoreable", "Transport"}         -> 502
      [] e \in {"ProviderUnconfigured", "Store"}    -> 503

Stages == {"idle", "auth", "permission", "parse", "authorize", "disconnect", "close", "status",
           "callback", "verify", "fetch", "exchange", "lifetime", "identity", "audience",
           "email", "store", "activate", "answered"}

TypeOK ==
    /\ stage \in Stages
    /\ req = None \/ /\ req.verb \in Verbs
                     /\ req.principal \in SUBSET Permissions \cup {None}
                     /\ req.body \in Bodies \cup {None}
    /\ bypass \in BOOLEAN
    /\ claims = None \/ /\ claims.identity \in Identity
                        /\ claims.token \in IdToken \cup {None}
    /\ touched \subseteq {"rows", "provider", "store"}
    /\ raced \in BOOLEAN
    /\ answer = None \/ /\ answer.code \in Errors \cup {"Ok", "Unauthenticated", "Forbidden"}
                        /\ answer.status \in {200, 204, 400, 401, 403, 404, 500, 502, 503}

Init ==
    /\ stage = "idle" /\ req = None /\ claims = None
    /\ bypass \in BOOLEAN
    /\ touched = {} /\ raced = FALSE /\ answer = None

-----------------------------------------------------------------------------

Goto(s) == stage' = s /\ UNCHANGED <<req, bypass, claims, raced, answer>>
Answer(status, code) ==
    /\ stage' = "answered"
    /\ answer' = [status |-> status, code |-> code]
    /\ UNCHANGED <<req, bypass, claims>>
Reject(e) == Answer(HttpOf(e), e) /\ UNCHANGED raced
Touch(x) == touched' = touched \cup {x}

\* A request arrives; only complete has a body that is looked at here.
Arrive(v, p, b) ==
    /\ stage = "idle"
    /\ (v # "complete") <=> (b = None)
    /\ req' = [verb |-> v, principal |-> p, body |-> b]
    /\ stage' = IF v = "callback" THEN "callback" ELSE "auth"
    /\ UNCHANGED <<bypass, claims, touched, raced, answer>>

\* require_principal, in front of every route but the callback.
RequirePrincipal ==
    /\ stage = "auth"
    /\ IF req.principal = None
       THEN Answer(401, "Unauthenticated") /\ UNCHANGED raced
       ELSE Goto("permission")
    /\ UNCHANGED touched

\* Mutation: any permission of the module is as good as another.
HasAny(p, v) == v = "status" \/ p # {}

\* The permission each verb asks for; status is open to every principal.
Has(p, v) ==
    CASE v \in {"authorize", "complete"} -> "write" \in p
      [] v = "disconnect"                -> "delete" \in p
      [] v = "status"                    -> TRUE

CheckPermission ==
    /\ stage = "permission"
    /\ IF Has(req.principal, req.verb)
       THEN Goto(IF req.verb = "complete" THEN "parse" ELSE req.verb)
       ELSE Answer(403, "Forbidden") /\ UNCHANGED raced
    /\ UNCHANGED touched

\* parse_form_complete: a pair without '=' spoils the body, the last of several
\* values of a key counts, and both must be there and not be empty.
Last(form, k) ==
    LET at == {i \in DOMAIN form : form[i].key = k}
    IN IF at = {} THEN None ELSE form[CHOOSE i \in at : \A j \in at : j <= i]
ParseForm(form) ==
    /\ \A i \in DOMAIN form : form[i].eq
    /\ \A k \in {"code", "state"} : Last(form, k) # None /\ ~Last(form, k).empty

ParseComplete ==
    /\ stage = "parse"
    /\ IF IF req.body.json THEN req.body.whole ELSE ParseForm(req.body.form)
       THEN /\ stage' = "verify"
            /\ req' = [req EXCEPT !.body = None]
            /\ UNCHANGED <<bypass, claims, raced, answer>>
       ELSE Reject("Invalid")
    /\ UNCHANGED touched

-----------------------------------------------------------------------------
(* authorize, disconnect, status, callback                                 *)

\* Provider, client, account_ref and scopes are checked before the transaction.
Authorize ==
    /\ stage = "authorize"
    /\ \/ \E e \in {"Invalid", "ProviderUnconfigured", "Db"} :
            Reject(e) /\ UNCHANGED touched
       \/ Answer(200, "Ok") /\ Touch("rows") /\ UNCHANGED raced

\* fetch_account and store.revoke.
Disconnect ==
    /\ stage = "disconnect"
    /\ \/ \E e \in {"NotFound", "Db"} : Reject(e) /\ UNCHANGED touched
       \/ Answer(204, "Ok") /\ UNCHANGED <<raced, touched>>      \* revoked already
       \/ Reject("Store") /\ (Touch("store") \/ UNCHANGED touched)
       \/ Goto("close") /\ Touch("store")

DisconnectClose ==
    /\ stage = "close"
    /\ \/ Reject("Db") /\ UNCHANGED touched
       \/ Answer(204, "Ok") /\ Touch("rows") /\ UNCHANGED raced

Status ==
    /\ stage = "status"
    /\ \/ \E e \in {"NotFound", "Db"} : Reject(e)
       \/ Answer(200, "Ok") /\ UNCHANGED raced
    /\ UNCHANGED touched

\* callback_page: a blank code or a state that does not verify, or the page that
\* posts the form.
CallbackPage == {"Invalid", "State", "Ok"}

\* The provider's refusal and a missing code or state end before the page; every
\* failure is an error page.
Callback ==
    /\ stage = "callback"
    /\ \/ Answer(400, "Invalid")
       \/ \E e \in CallbackPage : Answer(IF e = "Ok" THEN 200 ELSE 400, e)
    /\ UNCHANGED <<touched, raced>>

-----------------------------------------------------------------------------
(* complete                                                                *)

VerifyState ==
    /\ stage = "verify"
    /\ Reject("State") \/ Goto("fetch")
    /\ UNCHANGED touched

\* The account, its provider, status and verifier, and the provider's client.
FetchPending ==
    /\ stage = "fetch"
    /\ \/ \E e \in {"NotFound", "State", "ProviderUnconfigured", "Db"} : Reject(e)
       \/ Goto("exchange")
    /\ UNCHANGED touched

ExchangeCode ==
    /\ stage = "exchange"
    /\ Touch("provider")
    /\ Reject("Transport") \/ Goto("lifetime")

\* expires_at: an answer without a positive expires_in cannot be stored.
CheckLifetime ==
    /\ stage = "lifetime"
    /\ Reject("Unstoreable") \/ Goto("identity")
    /\ UNCHANGED touched

\* fetch_identity.  The id_token came with the exchange: None if there is none or
\* its payload is not base64 of JSON.
FetchIdentity ==
    /\ stage = "identity"
    /\ UNCHANGED touched
    /\ \/ Reject("Transport")
       \/ /\ \E i \in Identity, t \in IdToken \cup {None} :
               claims' = [identity |-> i, token |-> t]
          /\ stage' = "audience"
          /\ UNCHANGED <<req, bypass, raced, answer>>

\* decode_id_token_claims gives up at a missing audience, and with it the nonce.
DecodeIdToken(t) == IF t = None \/ t.aud = "absent" THEN None ELSE t
FromToken(f) ==
    LET decoded == DecodeIdToken(claims.token)
    IN IF decoded = None THEN None ELSE decoded[f]

\* Mutation: the identity endpoint wins without being compared.
MergeFirst(a, b) == IF a # None THEN a ELSE b

\* merge_claim: two reads that disagree, case aside, are no claim at all.
MergeClaim(a, b) ==
    IF a # None /\ b # None /\ Fold(a) # Fold(b) THEN "conflict"
    ELSE IF a # None THEN a ELSE b

\* verify_audience_and_nonce.
CheckAudience ==
    LET aud == MergeClaim(claims.identity.aud, FromToken("aud"))
        nonce == MergeClaim(claims.identity.nonce, FromToken("nonce"))
    IN
    /\ stage = "audience"
    /\ IF aud = "ours" /\ nonce = "ours" THEN Goto("email") ELSE Reject("Identity")
    /\ UNCHANGED touched

\* verify_email_match: stated, not said to be unverified, and the account's own
\* unless the deployment declared shared mailboxes.
EmailPasses(i) ==
    /\ i.email # None
    /\ i.verified # FALSE
    /\ Fold(i.email) = "ours" \/ bypass

\* Mutation: the bundle is stored as soon as it is there, the e-mail checked after.
EmailAfterStore ==
    /\ stage = "email"
    /\ Touch("store")
    /\ IF EmailPasses(claims.identity) THEN Goto("store") ELSE Reject("Identity")

CheckEmail ==
    /\ stage = "email"
    /\ IF EmailPasses(claims.identity) THEN Goto("store") ELSE Reject("Identity")
    /\ UNCHANGED touched

\* issue, or rotate when the scope has a credential.  A refused call may have
\* reached the store.
StoreBundle ==
    /\ stage = "store"
    /\ \/ Reject("Store") /\ (Touch("store") \/ UNCHANGED touched)
       \/ Goto("activate") /\ Touch("store")

\* The guarded UPDATE: the row may no longer be pending.
Activate ==
    /\ stage = "activate"
    /\ \/ Reject("Db") /\ UNCHANGED touched
       \/ /\ Answer(400, "State")
          /\ raced' = TRUE
          /\ UNCHANGED touched
       \/ Answer(200, "Ok") /\ Touch("rows") /\ UNCHANGED raced

-----------------------------------------------------------------------------

\* The next request finds nothing of this one.
Finish ==
    /\ stage = "answered"
    /\ stage' = "idle" /\ req' = None /\ claims' = None /\ answer' = None
    /\ touched' = {} /\ raced' = FALSE
    /\ UNCHANGED bypass

Next ==
    \/ \E v \in Verbs, p \in SUBSET Permissions \cup {None}, b \in Bodies \cup {None} :
         Arrive(v, p, b)
    \/ RequirePrincipal \/ CheckPermission \/ ParseComplete
    \/ Authorize \/ Disconnect \/ DisconnectClose \/ Status \/ Callback
    \/ VerifyState \/ FetchPending \/ ExchangeCode \/ CheckLifetime \/ FetchIdentity
    \/ CheckAudience \/ CheckEmail \/ StoreBundle \/ Activate
    \/ Finish

Spec == Init /\ [][Next]_vars

-----------------------------------------------------------------------------
(* What must hold of a request.                                            *)

\* No request without the permission of its verb reaches the provider, the store
\* or the rows: each route asks for its own, and none implies another.
TouchesNeedPermission ==
    touched # {} => /\ req.principal # None
                    /\ IF req.verb = "disconnect" THEN "delete" \in req.principal
                       ELSE "write" \in req.principal

Stores == req # None /\ req.verb = "complete" /\ "store" \in touched

\* What the identity endpoint and the id_token themselves say of f, whatever the
\* code makes of it.
ReadsOf(f) ==
    ({claims.identity[f]} \cup (IF claims.token = None THEN {} ELSE {claims.token[f]}))
      \ {None, "absent"}

\* What is stored belongs to the account it is stored for: some server-side read
\* names this deployment's client and the nonce of this authorization, and the
\* e-mail is the account's or bypassed.  Neither source hides the other: the
\* identity endpoint names no other client or nonce, and no more does an id_token
\* that has an audience, even one whose audience cannot be read.
IdentityProven ==
    Stores =>
       /\ \A f \in {"aud", "nonce"} :
            /\ "ours" \in ReadsOf(f)
            /\ claims.identity[f] \in {"ours", None}
            /\ claims.token # None /\ claims.token.aud # "absent"
                 => claims.token[f] \in {"ours", "OURS", None}
       /\ claims.identity.email \in IF bypass THEN Value ELSE {"ours", "OURS"}
       /\ claims.identity.verified # FALSE

\* A completion that the caller is told was refused (a 4xx) has not touched the
\* store, unless another request took the row between the check and the update.
RefusalLeavesStore ==
    answer # None /\ answer.status \in 400..499 /\ req.verb = "complete" /\ ~raced
       => "store" \notin touched

-----------------------------------------------------------------------------
(* What the documents say of it, and the code does not do.                 *)

\* "Sources, cross-checked when both exist: the server-side identity read, and the
\* id_token's own claims" (verify_audience_and_nonce), "id_token nonce == the nonce
\* minted into the signed state" (complete): nothing is stored while a read that
\* exists names another client or another authorization.
ReadsAgree ==
    Stores => \A f \in {"aud", "nonce"} : \A v \in ReadsOf(f) : Fold(v) = "ours"
=============================================================================
