----------------------------- MODULE PublicEdge -----------------------------
(***************************************************************************)
(* One request on its way through the application: PublicCORSMiddleware    *)
(* around BodyLimitMiddleware around the routes (app/main.py), the error   *)
(* handlers, and for a submission everything that submit asks before it    *)
(* stores: the widget, the payload, the limits, the key, and the chain of  *)
(* geo providers (app/services/geo.py).  The browser that sends it has a   *)
(* say too: it asks by a preflight before a foreign page's request goes    *)
(* out, and hides an answer that does not allow the page to read it.       *)
(*                                                                         *)
(* Requests share nothing here; what they share is in Submissions and      *)
(* RateLimiter, whose verdicts are free in this module.  A widget has one  *)
(* field; a submission may name it and a stray one.                        *)
(***************************************************************************)
EXTENDS Validation, Sequences, FiniteSets

CONSTANTS Situations, \* the configurations and widgets looked at
          None

\* field: what the widget declares.  The rest is app/config.py: the chain, as
\* what each of its providers needs, and the switches.
Statuses == {"ok", "skipped_no_ip", "skipped_private_ip", "unavailable"}
ASSUME NamesAssumption ==
  /\ Nothing \notin Values /\ Nothing \notin {Short, 9}
  /\ None \notin {"raised", "refused", "accepted"}
  /\ None \notin [status : Statuses, provider : Nat \cup {None}]

ASSUME SituationAssumption ==
  \A s \in Situations : /\ s.field \in FieldSpecs
                        /\ s.needsPublic \in Seq(BOOLEAN)
                        /\ s.down \subseteq Nat
                        /\ s.forced \in {"", "public", "private"}
                        /\ s.trustProxy \in BOOLEAN

VARIABLES situation,
          call,     \* what is requested, by whom
          pc,
          faulty,   \* history: a database call raised
          code,     \* the answer's status, 0 before there is one
          allowed,  \* whether it carries Access-Control-Allow-Origin
          seen,     \* what the sender gets to see of it
          acted,    \* history: an owner's operation was run
          data,     \* the submission's data, as sent
          verdict,  \* history: what became of it in validate_submission
          ip,       \* client_ip, then the address to look up
          position, \* the provider to be asked next
          attempted,
          asked,    \* history: the providers asked, in order
          location, \* geo_status and geo_provider
          row       \* what is stored

request == <<situation, call>>
answer == <<code, allowed, seen>>
geo == <<ip, position, attempted, asked, location>>
vars == <<situation, call, pc, faulty, code, allowed, seen, acted, data, verdict,
          ip, position, attempted, asked, location, row>>

PublicPaths == {"submissions", "config", "loader", "asset", "publicUnknown"}
PrivatePaths == {"admin", "page", "unknown"}
\* Mutant: one set of rules for the whole application.
IsPublicAlways(path) == TRUE
IsPublic(path) == path \in PublicPaths

\* A key means something to the admin API only.  envelope: what a submission
\* has around its data: a NUL in its widget_id, or half a surrogate pair in a
\* key that nothing declares.
Calls == {c \in [page : {"own", "foreign", "none"}, path : PublicPaths \cup PrivatePaths,
                 key : {"none", "wrong", "right"}, json : BOOLEAN,
                 envelope : {"plain", "nul", "surrogate"}] :
            /\ c.path = "admin" \/ c.key = "none"
            /\ c.path = "submissions" \/ c.envelope = "plain"}
Addresses == {"", "public", "private"}

\* A browser names the origin of what crosses origins, and of every POST.
HasOrigin == call.page = "foreign" \/ (call.page = "own" /\ call.path = "submissions")
\* A bearer token or a JSON body takes a foreign page's request out of the
\* simple ones that need no preflight.
NeedsPreflight(c) == c.page = "foreign" /\ (c.key # "none" \/ c.json)

Init == /\ situation \in Situations
        /\ call = None /\ pc = "start" /\ faulty = FALSE
        /\ code = 0 /\ allowed = FALSE /\ seen = None
        /\ acted = FALSE /\ data = None /\ verdict = None
        /\ ip = None /\ position = 1 /\ attempted = FALSE /\ asked = <<>>
        /\ location = None /\ row = None

Goto(step) == pc' = step /\ UNCHANGED answer
Respond(status) == pc' = "out" /\ code' = status /\ UNCHANGED <<allowed, seen>>
\* Starlette's last resort stands outside the two middlewares.
Raise == pc' = "arrive" /\ code' = 500 /\ UNCHANGED <<allowed, seen>>
-----------------------------------------------------------------------------
(* The browser, before and after. *)

Send == /\ pc = "start"
        /\ call' \in Calls
        /\ Goto(IF NeedsPreflight(call') THEN "preflight" ELSE "bodyLimit")
        /\ UNCHANGED <<situation, faulty, acted, data, verdict, geo, row>>

\* The middleware answers for public paths, a 405 from the routes for others.
Preflight == /\ pc = "preflight"
             /\ IF IsPublic(call.path)
                  THEN Goto("bodyLimit")
                  ELSE pc' = "done" /\ seen' = "blocked" /\ UNCHANGED <<code, allowed>>
             /\ UNCHANGED <<request, faulty, acted, data, verdict, geo, row>>

\* The rest of the CORS middleware, on the way out.
Out == /\ pc = "out"
       /\ allowed' = (IsPublic(call.path) /\ HasOrigin)
       /\ pc' = "arrive"
       /\ UNCHANGED <<request, faulty, code, seen, acted, data, verdict, geo, row>>

Arrive == /\ pc = "arrive"
          /\ seen' = IF call.page = "foreign" /\ ~allowed THEN "blocked" ELSE "answer"
          /\ pc' = "done"
          /\ UNCHANGED <<request, faulty, code, allowed, acted, data, verdict, geo, row>>
-----------------------------------------------------------------------------
(* The application. *)

\* Mutant: the size is checked outside the CORS middleware.
BodyLimitOutermost == /\ pc = "bodyLimit"
                      /\ \/ pc' = "arrive" /\ code' = 413 /\ UNCHANGED <<allowed, seen>>
                         \/ Goto("route")
                      /\ UNCHANGED <<request, faulty, acted, data, verdict, geo, row>>

BodyLimit == /\ pc = "bodyLimit"
             /\ Respond(413) \/ Goto("route")
             /\ UNCHANGED <<request, faulty, acted, data, verdict, geo, row>>

\* The routes that only read; a missing parameter is a 400 by the handler of
\* what would else be a 422.
Codes == [config |-> {200, 304, 404}, loader |-> {200, 400, 404}, asset |-> {200, 404},
          publicUnknown |-> {404, 405}, page |-> {200}, unknown |-> {404, 405}]
Read == /\ pc = "route" /\ call.path \in DOMAIN Codes
        /\ \E status \in Codes[call.path] : Respond(status)
        /\ UNCHANGED <<request, faulty, acted, data, verdict, geo, row>>

\* require_tenant; a body that does not parse is met before the key is.
Admin == /\ pc = "route" /\ call.path = "admin"
         /\ \/ call.key = "right" /\ acted' = TRUE
                 /\ \E status \in {200, 201, 204, 400, 404} : Respond(status)
            \/ call.key # "right" /\ Respond(401) /\ UNCHANGED acted
            \/ Respond(400) /\ UNCHANGED acted
         /\ UNCHANGED <<request, faulty, data, verdict, geo, row>>

\* create_submission: size, JSON, object, envelope, and the caller's address.
Body == /\ pc = "route" /\ call.path = "submissions"
        /\ \/ \E status \in {400, 413} : Respond(status) /\ UNCHANGED <<data, ip>>
           \/ /\ \E names \in SUBSET {"field", "stray"}, v \in Values : data' = [name \in names |-> v]
              /\ \E peer \in Addresses, forwarded \in Addresses \cup {None} :
                   ip' = IF situation.trustProxy /\ forwarded # None THEN forwarded ELSE peer
              /\ Goto("gates")
        /\ UNCHANGED <<request, faulty, acted, verdict, position, attempted, asked, location, row>>

\* get_active and reject_unknown_keys, as far as Submissions does not say more.
\* Postgres is not even asked for an id with a NUL, and an error that names
\* half a surrogate pair cannot be encoded.
Gates == /\ pc = "gates"
         /\ \/ call.envelope = "plain" /\ Goto("validate")
            \/ call.envelope # "nul" /\ \E status \in {400, 404} : Respond(status)
            \/ call.envelope # "plain" /\ Raise
         /\ UNCHANGED <<request, faulty, acted, data, verdict, geo, row>>

Declared == [name \in {"field"} |-> situation.field]

\* The error names a stray field, which may again be half a surrogate pair.
Validate == /\ pc = "validate"
            /\ \/ ValidationRaises(Declared, data) /\ Raise /\ verdict' = "raised"
               \/ /\ ~ValidationRaises(Declared, data)
                  /\ IF ValidationErrors(Declared, data)
                       THEN Respond(400) \/ ("stray" \in DOMAIN data /\ Raise)
                       ELSE Goto("limits")
                  /\ verdict' = IF ValidationErrors(Declared, data) THEN "refused" ELSE "accepted"
            /\ UNCHANGED <<request, faulty, acted, data, geo, row>>

\* The rate limits, then the replay: both before any provider is asked.
Limits == /\ pc = "limits"
          /\ Goto("enrich") \/ \E status \in {200, 429} : Respond(status)
          /\ UNCHANGED <<request, faulty, acted, data, verdict, geo, row>>
-----------------------------------------------------------------------------
(* enrich. *)

Locate(status, provider) == location' = [status |-> status, provider |-> provider]

Enrich == LET lookup == IF situation.forced # "" THEN situation.forced ELSE ip
          IN /\ pc = "enrich"
             /\ ip' = lookup
             /\ IF lookup = "" THEN Locate("skipped_no_ip", None) /\ Goto("insert")
                               ELSE UNCHANGED location /\ Goto("chain")
             /\ UNCHANGED <<request, faulty, acted, data, verdict, position, attempted, asked, row>>

\* Mutant: the mocks' exemption is everybody's.
EligibleAnyone(p) == p \notin situation.down
Eligible(p) == p \notin situation.down /\ (situation.needsPublic[p] => ip = "public")

\* Mutant: a provider that answers without a place ends the loop.
AskOnce == /\ pc = "chain" /\ position <= Len(situation.needsPublic)
           /\ position' = IF Eligible(position) THEN Len(situation.needsPublic) + 1 ELSE position + 1
           /\ attempted' = (attempted \/ Eligible(position))
           /\ asked' = IF Eligible(position) THEN Append(asked, position) ELSE asked
           /\ \/ Eligible(position) /\ Locate("ok", position) /\ Goto("insert")
              \/ UNCHANGED location /\ Goto("chain")
           /\ UNCHANGED <<request, faulty, acted, data, verdict, ip, row>>

\* One provider: passed over, or asked; and then it answers with a country or
\* a city, or it raises or answers nothing, which comes to the same.
Ask == /\ pc = "chain" /\ position <= Len(situation.needsPublic)
       /\ position' = position + 1
       /\ attempted' = (attempted \/ Eligible(position))
       /\ asked' = IF Eligible(position) THEN Append(asked, position) ELSE asked
       /\ \/ Eligible(position) /\ Locate("ok", position) /\ Goto("insert")
          \/ UNCHANGED location /\ Goto("chain")
       /\ UNCHANGED <<request, faulty, acted, data, verdict, ip, row>>

GiveUp == /\ pc = "chain" /\ position > Len(situation.needsPublic)
          /\ Locate(IF ~attempted /\ ip # "public" THEN "skipped_private_ip" ELSE "unavailable", None)
          /\ Goto("insert")
          /\ UNCHANGED <<request, faulty, acted, data, verdict, ip, position, attempted, asked, row>>

\* 201, 202 for spam, 200 for a replay that lost the race; jsonb may refuse.
Insert == LET cleaned == CleanedData(Declared, data)
          IN /\ pc = "insert"
             /\ \/ Unstorable(cleaned["field"]) /\ Raise /\ UNCHANGED row
                \/ /\ ~Unstorable(cleaned["field"])
                   /\ \/ row' = cleaned /\ \E status \in {201, 202} : Respond(status)
                      \/ Respond(200) /\ UNCHANGED row
             /\ UNCHANGED <<request, faulty, acted, data, verdict, geo>>

\* A repository call raises: nothing between it and the last resort catches.
DbError == /\ \/ pc \in {"gates", "limits", "insert"}
              \/ pc = "route" /\ call.path \in {"config", "loader", "page", "admin"}
           /\ faulty' = TRUE
           /\ Raise
           /\ UNCHANGED <<request, acted, data, verdict, geo, row>>

Next == \/ Send \/ Preflight \/ BodyLimit \/ Read \/ Admin \/ Body \/ Gates \/ Validate
        \/ Limits \/ Enrich \/ Ask \/ GiveUp \/ Insert \/ Out \/ Arrive \/ DbError

Spec == Init /\ [][Next]_vars
-----------------------------------------------------------------------------
(* Properties. *)

\* CORS "only" and "still": a foreign page runs no owner's operation and reads
\* nothing private, and it reads every answer of the public side, refusals at
\* any depth included, but for a 500, which is made outside the middleware.
ForeignPagesSeeThePublicSide ==
  pc = "done" /\ call.page = "foreign" =>
    /\ ~acted
    /\ seen = "answer" <=> (call.path \in PublicPaths /\ code # 500)

Fitting == call.envelope = "plain" /\ FitsAll(Declared, data)

\* What is stored is what the widget declares, each value of its field's kind,
\* within both limits and such as jsonb keeps; a form that fits is not refused
\* for its content; and no form that fits ends in a 500 but by the database.
OnlyFittingDataIsStored ==
  /\ row # None => row["field"] \in Keeps(situation.field) \cup {Nothing} /\ Fitting
  /\ verdict # None /\ Fitting => verdict = "accepted"
  /\ data # None /\ Fitting /\ code = 500 => faulty

\* "Bad type -> 400 (never a 500)" (README.md), "bad input -> clean 4xx, never
\* a 500" (EVIDENCE.md): what only names the field that is declared, with a
\* value it does not take, does not end in a 500 but by the database.
BadTypeIsNeverA500 ==
  verdict # None /\ DOMAIN data \subseteq DOMAIN Declared /\ ~FitsAll(Declared, data) /\ code = 500 =>
    faulty

\* "It can make a submission poorer; it can never make one fail": the status
\* says why a row has no place, every provider that could have helped was
\* asked before, in order, and a row never lacks its status.
LocationTellsWhy ==
  /\ row # None => location # None
  /\ location # None =>
       LET able == {p \in 1..Len(situation.needsPublic) : Eligible(p)}
           tried == {asked[i] : i \in DOMAIN asked}
       IN CASE location.status = "ok" ->
                 location.provider \in able /\ tried = {p \in able : p <= location.provider}
            [] location.status = "skipped_no_ip" -> ip = "" /\ tried = {}
            [] location.status = "skipped_private_ip" -> ip = "private" /\ able = {}
            [] OTHER -> tried = able /\ (able = {} => ip = "public")

\* "A private address is not sent to a lookup service at all", and no address
\* is for a request that is refused or a replay found in time.
AddressesStayHome ==
  asked # <<>> =>
    /\ ip = "public" \/ \A i \in DOMAIN asked : ~situation.needsPublic[asked[i]]
    /\ code \in {0, 200, 201, 202, 500} /\ verdict = "accepted"
=============================================================================
