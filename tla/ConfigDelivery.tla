--------------------------- MODULE ConfigDelivery ---------------------------
(***************************************************************************)
(* One widget's public configuration and the browsers that cache it: the   *)
(* owner's edits (WidgetsRepository), the config endpoint with its ETag    *)
(* (DeliveryService, widget_config), the visitor's HTTP cache and the      *)
(* mount that renders what comes back.                                     *)
(*                                                                         *)
(* Abstracted: everything an owner can edit is one value, the look; the    *)
(* deployment's part of the payload is the name of the honeypot field; a   *)
(* moment is one unit of Cache-Control's max-age; the etag is the version, *)
(* the id being the same throughout.                                       *)
(***************************************************************************)
EXTENDS Naturals

CONSTANTS Browsers,
          Looks,        \* what an owner can make of the widget
          SeedLook,     \* what scripts/seed.py makes of it
          Honeypots,    \* values of HONEYPOT_FIELD
          MaxAge,       \* CONFIG_MAX_AGE
          MaxVersion,   \* bound: config_version of the last edit
          MaxRedeploys, \* bound: changes of the environment
          MaxReseeds,   \* bound: runs of the seed that create the widget anew
          None

ASSUME ConfigAssumption ==
  /\ SeedLook \in Looks /\ Honeypots # {}
  /\ MaxAge \in Nat \ {0} /\ MaxVersion \in Nat \ {0}
  /\ MaxRedeploys \in Nat /\ MaxReseeds \in Nat

VARIABLES state,    \* the widgets row: "active", "inactive" or "deleted"
          look,     \* its editable columns
          version,  \* its config_version
          honeypot, \* config.HONEYPOT_FIELD of the running deployment
          cache,    \* per browser: the stored response, or None
          shown,    \* per browser: the config its last mount rendered, or None
          quiet,    \* moments since the config last changed, up to MaxAge
          redeploys, reseeds

row == <<state, look, version>>
browsers == <<cache, shown>>
bounds == <<redeploys, reseeds>>
configVars == <<state, look, version, honeypot, cache, shown, quiet, redeploys, reseeds>>

\* public_config: what depends on the row and what depends on the deployment.
Payload == [look |-> look, honeypot |-> honeypot]
\* Mutant: an etag of the id alone.
EtagOfId == 1
Etag == version

\* get_active: deleted and inactive widgets are equally not found.
Served == state = "active"

ConfigInit == /\ state = "active"
              /\ look = SeedLook
              /\ version = 1
              /\ honeypot \in Honeypots
              /\ cache = [b \in Browsers |-> None]
              /\ shown = [b \in Browsers |-> None]
              /\ quiet = 0
              /\ redeploys = 0
              /\ reseeds = 0
-----------------------------------------------------------------------------
(* The owner and the operator. *)

\* Mutant: an edit that forgets the bump.
UpdateUnbumped(changed, active) ==
  /\ state # "deleted" /\ version < MaxVersion
  /\ look' = changed
  /\ state' = IF active THEN "active" ELSE "inactive"
  /\ quiet' = 0
  /\ UNCHANGED <<version, honeypot, browsers, bounds>>

\* One UPDATE statement: the changes and the bump together, so two PATCHes at
\* once give two versions.  Switching active off and on is such a change too.
Update(changed, active) ==
  /\ state # "deleted" /\ version < MaxVersion
  /\ look' = changed
  /\ state' = IF active THEN "active" ELSE "inactive"
  /\ version' = version + 1
  /\ quiet' = 0
  /\ UNCHANGED <<honeypot, browsers, bounds>>

DeleteWidget == /\ state # "deleted"
                /\ state' = "deleted"
                /\ quiet' = 0
                /\ UNCHANGED <<look, version, honeypot, browsers, bounds>>

\* The seed creates a demo widget again under its fixed id, at the column's
\* default version.
Reseed == /\ state = "deleted" /\ reseeds < MaxReseeds
          /\ state' = "active"
          /\ look' = SeedLook
          /\ version' = 1
          /\ quiet' = 0
          /\ reseeds' = reseeds + 1
          /\ UNCHANGED <<honeypot, browsers, redeploys>>

Redeploy(h) == /\ h # honeypot /\ redeploys < MaxRedeploys
               /\ honeypot' = h
               /\ quiet' = 0
               /\ redeploys' = redeploys + 1
               /\ UNCHANGED <<row, browsers, reseeds>>
-----------------------------------------------------------------------------
(* The browser. *)

Elapse == /\ quiet' = IF quiet < MaxAge THEN quiet + 1 ELSE quiet
          /\ cache' = [b \in Browsers |->
               IF cache[b] = None \/ cache[b].age = MaxAge THEN cache[b]
                                                           ELSE [cache[b] EXCEPT !.age = @ + 1]]
          /\ UNCHANGED <<row, honeypot, shown, bounds>>

\* Mutant: a copy that never goes stale.
FreshForever(b) == cache[b] # None
Fresh(b) == cache[b] # None /\ cache[b].age < MaxAge
Stored(payload) == [etag |-> Etag, payload |-> payload, age |-> 0]

\* fetch(.../config) and mount: from the cache while it is fresh, else by a
\* request that carries the etag of the stale copy, if there is one.
Show(b, stored) == /\ cache' = [cache EXCEPT ![b] = stored]
                   /\ shown' = [shown EXCEPT ![b] = stored.payload]

FromCache(b) == Fresh(b) /\ Show(b, cache[b])

\* 404: mount renders nothing.
NotFound(b) == /\ ~Fresh(b) /\ ~Served
               /\ shown' = [shown EXCEPT ![b] = None]
               /\ UNCHANGED cache

Revalidated(b) == cache[b] # None /\ cache[b].etag = Etag

\* 304, and the copy is as good as new.
NotModified(b) == /\ ~Fresh(b) /\ Served /\ Revalidated(b)
                  /\ Show(b, Stored(cache[b].payload))

Fetched(b) == /\ ~Fresh(b) /\ Served /\ ~Revalidated(b)
              /\ Show(b, Stored(Payload))

MountOn(b) == /\ FromCache(b) \/ NotFound(b) \/ NotModified(b) \/ Fetched(b)
              /\ UNCHANGED <<row, honeypot, quiet, bounds>>

ConfigNext == \/ \E l \in Looks, active \in BOOLEAN : Update(l, active)
              \/ DeleteWidget \/ Reseed \/ Elapse
              \/ \E h \in Honeypots : Redeploy(h)
              \/ \E b \in Browsers : MountOn(b)

ConfigSpec == ConfigInit /\ [][ConfigNext]_configVars

\* Time passes and the page is opened again and again; nobody has to edit.
FairConfigSpec == ConfigSpec /\ WF_configVars(Elapse) /\ \A b \in Browsers : WF_configVars(MountOn(b))
-----------------------------------------------------------------------------
(* Properties. *)

\* "The payload only changes when config_version does" (config_etag): a stored
\* response with the current etag has the current payload, so a 304 is true.
SameTagSamePayload ==
  \A b \in Browsers : cache[b] # None /\ cache[b].etag = Etag => cache[b].payload = Payload

\* Of the owner's edits this holds: while the row lives, no two of its looks
\* ever carry one etag, whatever is redeployed meanwhile.
SameTagSameLook ==
  \A b \in Browsers : reseeds = 0 /\ cache[b] # None /\ cache[b].etag = Etag =>
    cache[b].payload.look = look

\* What a browser may still use unasked is the latest edit of a widget that is
\* on, unless the change is more recent than the copy: staleness is bounded by
\* max-age, not by how often a copy was renewed without its body.
StaleOnlyByMaxAge ==
  \A b \in Browsers : Fresh(b) /\ cache[b].age < quiet =>
    state = "active" /\ (reseeds = 0 => cache[b].payload.look = look)

\* Once the owner stops editing, every browser that keeps opening the page
\* shows the widget as it is, or nothing when it is off.
Current(b) == IF state = "active" THEN shown[b] # None /\ shown[b].look = look
                                ELSE shown[b] = None
EditsReachEveryone ==
  \A b \in Browsers : <>[](quiet = MaxAge /\ reseeds = 0) => <>[]Current(b)
=============================================================================
