------------------------ MODULE CustomerPageProofs ------------------------
(***************************************************************************)
(* What the platform puts on a customer's page, in two parts that share    *)
(* the page and no state: the config a browser fetches and caches          *)
(* (ConfigDelivery, for any number of browsers, edits, redeploys and runs  *)
(* of the seed), and the loaders, the bundle and the forms (WidgetPage,    *)
(* for any number of tags, panels and submits).                            *)
(***************************************************************************)
EXTENDS ConfigDelivery, WidgetPage, TLAPS

(* ConfigDelivery: what an etag vouches for, and how stale a copy can be.  *)

Payloads == [look : Looks, honeypot : Honeypots]
Copies == [etag : Nat, payload : Payloads, age : 0..MaxAge]

ConfigTypeOK == /\ state \in {"active", "inactive", "deleted"} /\ look \in Looks /\ version \in Nat
          /\ honeypot \in Honeypots
          /\ cache \in [Browsers -> Copies \cup {None}]
          /\ shown \in [Browsers -> Payloads \cup {None}]
          /\ quiet \in 0..MaxAge
          /\ redeploys \in Nat /\ reseeds \in Nat

\* Versions only grow while the row lives, so no copy is ahead of it.
NoCopyIsAhead == \A b \in Browsers : reseeds = 0 /\ cache[b] # None => cache[b].etag <= version

\* No copy was made by another deployment, if there was none.
OneDeployment == \A b \in Browsers : redeploys = 0 /\ cache[b] # None => cache[b].payload.honeypot = honeypot

ConfigIInv == ConfigTypeOK /\ NoCopyIsAhead /\ OneDeployment /\ SameTagSameLook /\ StaleOnlyByMaxAge

LEMMA ConfigInitInv == ConfigInit => ConfigIInv
<1> SUFFICES ASSUME ConfigInit PROVE ConfigIInv
  OBVIOUS
<1> USE ConfigAssumption DEF ConfigInit
<1>1. ConfigTypeOK
  BY DEF ConfigTypeOK
<1>2. NoCopyIsAhead /\ OneDeployment /\ SameTagSameLook /\ StaleOnlyByMaxAge
  BY DEF NoCopyIsAhead, OneDeployment, SameTagSameLook, StaleOnlyByMaxAge, Fresh
<1> QED BY <1>1, <1>2 DEF ConfigIInv
-----------------------------------------------------------------------------
(* A browser is given a copy. *)

\* What a browser knows of a copy that it may keep.
Sound(copy) == /\ reseeds = 0 => copy.etag <= version
               /\ redeploys = 0 => copy.payload.honeypot = honeypot
               /\ reseeds = 0 /\ copy.etag = Etag => copy.payload.look = look
               /\ copy.age < MaxAge /\ copy.age < quiet =>
                    state = "active" /\ (reseeds = 0 => copy.payload.look = look)

LEMMA CopiesAreSound ==
  ConfigIInv <=> ConfigTypeOK /\ \A b \in Browsers : cache[b] # None => Sound(cache[b])
BY DEF ConfigIInv, NoCopyIsAhead, OneDeployment, SameTagSameLook, StaleOnlyByMaxAge, Fresh, Sound

\* MountOn leaves the row alone: it is enough that what it stores is sound.
LEMMA ShowKeeps ==
  ASSUME ConfigIInv, NEW b \in Browsers, NEW copy \in Copies, Sound(copy), Show(b, copy),
         UNCHANGED <<row, honeypot, quiet, bounds>>
  PROVE  ConfigIInv'
<1>1. ConfigTypeOK'
  BY DEF ConfigIInv, ConfigTypeOK, Show, Copies, row, bounds
<1>2. ASSUME NEW c \in Browsers, cache'[c] # None PROVE Sound(cache[c])'
  <2>1. cache'[c] = copy \/ cache'[c] = cache[c]
    BY DEF Show, ConfigIInv, ConfigTypeOK
  <2>2. Sound(cache'[c])
    BY <1>2, <2>1, CopiesAreSound
  <2> QED BY <2>2 DEF Sound, Etag, row, bounds
<1>3. ConfigIInv' <=> ConfigTypeOK' /\ \A c \in Browsers : cache'[c] # None => Sound(cache[c])'
  BY DEF ConfigIInv, NoCopyIsAhead, OneDeployment, SameTagSameLook, StaleOnlyByMaxAge, Fresh, Sound
<1> QED BY <1>1, <1>2, <1>3

LEMMA MountInv ==
  ASSUME ConfigIInv, NEW b \in Browsers, MountOn(b) PROVE ConfigIInv'
<1>0. UNCHANGED <<row, honeypot, quiet, bounds>> /\ ConfigTypeOK
  BY DEF MountOn, ConfigIInv
<1>1. CASE FromCache(b)
  <2>1. cache[b] \in Copies /\ Sound(cache[b])
    BY <1>0, <1>1, CopiesAreSound DEF FromCache, Fresh, ConfigTypeOK
  <2> QED BY <1>0, <1>1, <2>1, ShowKeeps DEF FromCache
<1>2. CASE NotFound(b)
  <2>1. ConfigTypeOK'
    BY <1>0, <1>2 DEF NotFound, ConfigTypeOK, row, bounds
  <2> QED BY <1>0, <1>2, <2>1 DEF NotFound, ConfigIInv, NoCopyIsAhead, OneDeployment, SameTagSameLook,
                                  StaleOnlyByMaxAge, Fresh, Etag, row, bounds
<1>3. CASE NotModified(b)
  <2>1. cache[b] \in Copies /\ Sound(cache[b]) /\ cache[b].etag = version /\ state = "active"
    BY <1>0, <1>3, CopiesAreSound DEF NotModified, Revalidated, Served, Etag, ConfigTypeOK
  <2>2. Stored(cache[b].payload) \in Copies
    BY <1>0, <2>1, ConfigAssumption DEF Stored, Etag, Copies, ConfigTypeOK
  <2>3. Sound(Stored(cache[b].payload))
    BY <1>0, <2>1 DEF Stored, Sound, Etag, ConfigTypeOK, Copies
  <2> QED BY <1>0, <1>3, <2>2, <2>3, ShowKeeps DEF NotModified
<1>4. CASE Fetched(b)
  <2>1. Stored(Payload) \in Copies
    BY <1>0, ConfigAssumption DEF Stored, Payload, Etag, Copies, Payloads, ConfigTypeOK
  <2>2. Sound(Stored(Payload))
    BY <1>0, <1>4 DEF Stored, Payload, Sound, Etag, ConfigTypeOK, Fetched, Served
  <2> QED BY <1>0, <1>4, <2>1, <2>2, ShowKeeps DEF Fetched
<1> QED BY <1>1, <1>2, <1>3, <1>4 DEF MountOn
-----------------------------------------------------------------------------
LEMMA ConfigNextInv == ConfigIInv /\ [ConfigNext]_configVars => ConfigIInv'
<1> SUFFICES ASSUME ConfigIInv, [ConfigNext]_configVars PROVE ConfigIInv'
  OBVIOUS
<1>0. ConfigTypeOK /\ NoCopyIsAhead /\ OneDeployment /\ SameTagSameLook /\ StaleOnlyByMaxAge
  BY DEF ConfigIInv
<1> USE DEF NoCopyIsAhead, OneDeployment, SameTagSameLook, StaleOnlyByMaxAge, Fresh, Etag
<1>1. ASSUME NEW l \in Looks, NEW active \in BOOLEAN, Update(l, active) PROVE ConfigIInv'
  <2> USE <1>0, <1>1 DEF Update, browsers, bounds, ConfigTypeOK
  <2>1. ConfigTypeOK'
    BY ConfigAssumption
  <2>2. NoCopyIsAhead' /\ OneDeployment' /\ SameTagSameLook' /\ StaleOnlyByMaxAge'
    BY DEF Copies
  <2> QED BY <2>1, <2>2 DEF ConfigIInv
<1>2. CASE DeleteWidget
  <2> USE <1>0, <1>2 DEF DeleteWidget, browsers, bounds, ConfigTypeOK
  <2>1. ConfigTypeOK'
    BY ConfigAssumption
  <2>2. NoCopyIsAhead' /\ OneDeployment' /\ SameTagSameLook' /\ StaleOnlyByMaxAge'
    BY DEF Copies
  <2> QED BY <2>1, <2>2 DEF ConfigIInv
<1>3. CASE Reseed
  <2> USE <1>0, <1>3 DEF Reseed, browsers, ConfigTypeOK
  <2>1. ConfigTypeOK'
    BY ConfigAssumption
  <2>2. NoCopyIsAhead' /\ OneDeployment' /\ SameTagSameLook' /\ StaleOnlyByMaxAge'
    BY DEF Copies
  <2> QED BY <2>1, <2>2 DEF ConfigIInv
<1>4. CASE Elapse
  <2> USE <1>0, <1>4, ConfigAssumption DEF Elapse, row, bounds, ConfigTypeOK
  <2>1. \A b \in Browsers : cache[b] # None =>
          /\ cache'[b] \in Copies
          /\ cache'[b].etag = cache[b].etag /\ cache'[b].payload = cache[b].payload
          /\ cache'[b].age = IF cache[b].age = MaxAge THEN MaxAge ELSE cache[b].age + 1
    <3> SUFFICES ASSUME NEW b \in Browsers, cache[b] # None
                 PROVE  /\ cache'[b] \in Copies
                        /\ cache'[b].etag = cache[b].etag /\ cache'[b].payload = cache[b].payload
                        /\ cache'[b].age = IF cache[b].age = MaxAge THEN MaxAge ELSE cache[b].age + 1
      OBVIOUS
    <3>1. PICK copy \in Copies : copy = cache[b]
      OBVIOUS
    <3>2. cache'[b] = IF copy.age = MaxAge THEN copy ELSE [copy EXCEPT !.age = copy.age + 1]
      BY <3>1
    <3>3. MaxAge \in Nat
      OBVIOUS
    <3> QED BY ONLY <3>1, <3>2, <3>3 DEF Copies
  <2>2. \A b \in Browsers : cache[b] = None => cache'[b] = None
    OBVIOUS
  <2>3. ConfigTypeOK'
    BY <2>1, <2>2
  <2>4. NoCopyIsAhead' /\ OneDeployment' /\ SameTagSameLook'
    BY <2>1, <2>2
  <2>5. StaleOnlyByMaxAge'
    BY <2>1, <2>2 DEF Copies
  <2> QED BY <2>3, <2>4, <2>5 DEF ConfigIInv
<1>5. ASSUME NEW h \in Honeypots, Redeploy(h) PROVE ConfigIInv'
  <2> USE <1>0, <1>5 DEF Redeploy, browsers, row, ConfigTypeOK
  <2>1. ConfigTypeOK'
    BY ConfigAssumption
  <2>2. NoCopyIsAhead' /\ OneDeployment' /\ SameTagSameLook' /\ StaleOnlyByMaxAge'
    BY DEF Copies
  <2> QED BY <2>1, <2>2 DEF ConfigIInv
<1>6. ASSUME NEW b \in Browsers, MountOn(b) PROVE ConfigIInv'
  BY <1>6, MountInv
<1>7. CASE UNCHANGED configVars
  BY <1>0, <1>7 DEF ConfigIInv, ConfigTypeOK, configVars
<1> QED BY <1>1, <1>2, <1>3, <1>4, <1>5, <1>6, <1>7 DEF ConfigNext

LEMMA ConfigInvariance == ConfigSpec => []ConfigIInv
BY ConfigInitInv, ConfigNextInv, PTL DEF ConfigSpec
-----------------------------------------------------------------------------
(* The theorems. *)

\* config_etag over the repository's UPDATE: until the seed makes the row anew,
\* no etag is ever that of two looks, whoever edits and redeploys in between.
THEOREM AnEtagIsOneLook == ConfigSpec => []SameTagSameLook
<1>1. ConfigIInv => SameTagSameLook
  BY DEF ConfigIInv
<1> QED BY <1>1, ConfigInvariance, PTL

\* Cache-Control's max-age: what a browser uses unasked is the present look, or
\* older than the last change by less than max-age, also when all it ever got
\* since were answers without a body.
THEOREM StalenessIsBounded == ConfigSpec => []StaleOnlyByMaxAge
<1>1. ConfigIInv => StaleOnlyByMaxAge
  BY DEF ConfigIInv
<1> QED BY <1>1, ConfigInvariance, PTL

\* "The payload only changes when config_version does" (config_etag) is true of
\* one row in one deployment: what refutes it is a new honeypot name, or a seed.
Undisturbed == redeploys = 0 /\ reseeds = 0 => SameTagSamePayload

THEOREM EtagOfOneDeployment == ConfigSpec => []Undisturbed
<1>1. ASSUME ConfigIInv PROVE Undisturbed
  <2> SUFFICES ASSUME redeploys = 0, reseeds = 0, NEW b \in Browsers, cache[b] # None,
                      cache[b].etag = Etag
               PROVE  cache[b].payload = Payload
    BY DEF Undisturbed, SameTagSamePayload
  <2>1. cache[b].payload \in Payloads
    BY <1>1 DEF ConfigIInv, ConfigTypeOK, Copies
  <2>2. cache[b].payload.look = look /\ cache[b].payload.honeypot = honeypot
    BY <1>1 DEF ConfigIInv, SameTagSameLook, OneDeployment
  <2> QED BY <2>1, <2>2 DEF Payloads, Payload
<1> QED BY <1>1, ConfigInvariance, PTL
-----------------------------------------------------------------------------
(* WidgetPage: one bundle and one mount per tag, and thanks that are       *)
(* earned.                                                                 *)

PerCardOf(S) == [Tags -> [Cards -> S]]

TypeOK == /\ script \in [Tags -> {"fetching", "ran", "failed"}]
          /\ loading \in BOOLEAN /\ queue \in SUBSET Tags
          /\ bundle \in {"absent", "fetching", "ready", "failed"} /\ fetches \in Nat
          /\ widget \in [Tags -> {"none", "fetching", "blank", "shown"}]
          /\ mounts \in [Tags -> Nat] /\ built \in [Tags -> Nat] /\ closers \in [Tags -> Nat]
          /\ panel \in [Tags -> Nat]
          /\ button \in PerCardOf({"ready", "sending", "thanked"})
          /\ wire \in PerCardOf({"none", "sent", "stored", "refused"})
          /\ sends \in PerCardOf(Nat) /\ stored \in PerCardOf(Nat) /\ doubts \in PerCardOf(Nat)

\* The flag on window is set by the first loader that needs the bundle, and
\* tells whether it was asked for.
FlagTellsFetch == /\ fetches = IF loading THEN 1 ELSE 0
                  /\ loading <=> bundle # "absent"

\* A tag is in the queue, or mounted, by its own loader alone and once: what is
\* queued is not mounted yet, and nothing is queued for a bundle that is there.
QueuedOrMounted == /\ \A t \in Tags : /\ mounts[t] <= 1
                                      /\ t \in queue => script[t] = "ran" /\ mounts[t] = 0
                                      /\ script[t] # "ran" => mounts[t] = 0
                   /\ bundle = "ready" => queue = {}
                   /\ bundle = "absent" => queue = {}

\* A button is disabled exactly while its request is out, so a card has one
\* request at a time; what was stored was answered, or is about to be, or its
\* answer was lost.
OneRequestAtATime ==
  \A t \in Tags, c \in Cards :
    /\ button[t][c] = "sending" <=> wire[t][c] # "none"
    /\ wire[t][c] = "stored" => stored[t][c] > 0

IInv == TypeOK /\ FlagTellsFetch /\ QueuedOrMounted /\ OneRequestAtATime /\ ThanksAreEarned

LEMMA InitInv == Init => IInv
<1> SUFFICES ASSUME Init PROVE IInv
  OBVIOUS
<1> USE DEF Init, PerCard
<1>1. TypeOK
  BY DEF TypeOK, PerCardOf
<1>2. FlagTellsFetch /\ QueuedOrMounted
  BY DEF FlagTellsFetch, QueuedOrMounted
<1>3. OneRequestAtATime /\ ThanksAreEarned
  BY DEF OneRequestAtATime, ThanksAreEarned
<1> QED BY <1>1, <1>2, <1>3 DEF IInv
-----------------------------------------------------------------------------
\* A value set for one card.
LEMMA CardSet ==
  ASSUME NEW S, NEW f \in PerCardOf(S), NEW t \in Tags, NEW c \in Cards, NEW v \in S
  PROVE  [f EXCEPT ![t][c] = v] \in PerCardOf(S)
BY DEF PerCardOf

\* Loaders and bundle do not touch the forms, nor forms the page.
LEMMA FormsKept ==
  ASSUME OneRequestAtATime, ThanksAreEarned, UNCHANGED form
  PROVE  OneRequestAtATime' /\ ThanksAreEarned'
BY DEF OneRequestAtATime, ThanksAreEarned, form

LEMMA PageKept ==
  ASSUME FlagTellsFetch, QueuedOrMounted, UNCHANGED page
  PROVE  FlagTellsFetch' /\ QueuedOrMounted'
BY DEF FlagTellsFetch, QueuedOrMounted, page

\* One card's step: the others keep their buttons, requests and counts.
LEMMA CardStep ==
  ASSUME IInv, TypeOK', UNCHANGED page, NEW t \in Tags, NEW c \in Cards,
         \A u \in Tags, e \in Cards : u # t \/ e # c =>
           /\ button'[u][e] = button[u][e] /\ wire'[u][e] = wire[u][e]
           /\ stored'[u][e] = stored[u][e] /\ doubts'[u][e] = doubts[u][e],
         button'[t][c] = "sending" <=> wire'[t][c] # "none",
         button'[t][c] = "thanked" \/ wire'[t][c] = "stored" => stored'[t][c] > 0,
         stored'[t][c] <= doubts'[t][c] + IF button'[t][c] = "thanked" \/ wire'[t][c] = "stored" THEN 1 ELSE 0
  PROVE  IInv'
<1> USE DEF IInv
<1>1. OneRequestAtATime'
  BY DEF OneRequestAtATime
<1>2. ThanksAreEarned'
  BY DEF ThanksAreEarned
<1> QED BY <1>1, <1>2, PageKept
-----------------------------------------------------------------------------
LEMMA NextInv == IInv /\ [Next]_vars => IInv'
<1> SUFFICES ASSUME IInv, [Next]_vars PROVE IInv'
  OBVIOUS
<1> USE DEF IInv
<1>1. ASSUME BundleRuns PROVE IInv'
  <2> USE <1>1 DEF BundleRuns, Mount
  <2>1. TypeOK'
    BY DEF TypeOK, form
  <2>2. FlagTellsFetch' /\ QueuedOrMounted'
    BY DEF TypeOK, FlagTellsFetch, QueuedOrMounted
  <2> QED BY <2>1, <2>2, FormsKept
<1>2. ASSUME BundleFails PROVE IInv'
  <2> USE <1>2 DEF BundleFails
  <2>1. TypeOK'
    BY DEF TypeOK, form
  <2>2. FlagTellsFetch' /\ QueuedOrMounted'
    BY DEF TypeOK, FlagTellsFetch, QueuedOrMounted
  <2> QED BY <2>1, <2>2, FormsKept
<1>3. ASSUME NEW t \in Tags, LoaderRuns(t) PROVE IInv'
  <2> USE <1>3 DEF LoaderRuns
  <2>0. UNCHANGED form
    OBVIOUS
  <2>1. CASE BundleReady /\ Mount({t}) /\ UNCHANGED <<loading, queue, bundle, fetches>>
    <3> USE <2>1 DEF BundleReady, Mount
    <3>1. TypeOK'
      BY DEF TypeOK, form
    <3>2. FlagTellsFetch' /\ QueuedOrMounted'
      BY DEF TypeOK, FlagTellsFetch, QueuedOrMounted
    <3> QED BY <2>0, <3>1, <3>2, FormsKept
  <2>2. CASE /\ ~BundleReady
             /\ queue' = queue \cup {t} /\ loading' = TRUE
             /\ fetches' = IF NeedsBundle THEN fetches + 1 ELSE fetches
             /\ bundle' = IF NeedsBundle THEN "fetching" ELSE bundle
             /\ UNCHANGED <<widget, mounts>>
    <3> USE <2>2 DEF BundleReady, NeedsBundle
    <3>1. TypeOK'
      BY DEF TypeOK, form
    <3>2. FlagTellsFetch' /\ QueuedOrMounted'
      BY DEF TypeOK, FlagTellsFetch, QueuedOrMounted
    <3> QED BY <2>0, <3>1, <3>2, FormsKept
  <2> QED BY <2>1, <2>2
<1>4. ASSUME NEW t \in Tags, LoaderFails(t) PROVE IInv'
  <2> USE <1>4 DEF LoaderFails
  <2>1. TypeOK'
    BY DEF TypeOK, form
  <2>2. FlagTellsFetch' /\ QueuedOrMounted'
    BY DEF TypeOK, FlagTellsFetch, QueuedOrMounted
  <2> QED BY <2>1, <2>2, FormsKept
<1>5. ASSUME NEW t \in Tags, ConfigArrives(t) \/ ConfigFails(t) PROVE IInv'
  <2> USE <1>5 DEF ConfigArrives, ConfigFails, BuildCard
  <2>1. TypeOK'
    BY DEF TypeOK, form
  <2>2. FlagTellsFetch' /\ QueuedOrMounted'
    BY DEF FlagTellsFetch, QueuedOrMounted
  <2> QED BY <2>1, <2>2, FormsKept
<1>6. ASSUME NEW t \in Tags, Launch(t) \/ Close(t) \/ TimerFires(t) PROVE IInv'
  <2> USE <1>6 DEF Launch, Close, TimerFires, BuildCard
  <2>1. TypeOK'
    BY DEF TypeOK, form, page
  <2> QED BY <2>1, FormsKept, PageKept
<1>7. ASSUME NEW t \in Tags, NEW c \in Cards, Submit(t, c) PROVE IInv'
  <2> USE <1>7 DEF Submit
  <2>1. TypeOK'
    BY DEF TypeOK, PerCardOf, page
  <2>2. UNCHANGED page /\ button[t][c] \in {"ready", "sending", "thanked"}
    BY DEF TypeOK, PerCardOf
  <2>3. stored[t][c] \in Nat /\ doubts[t][c] \in Nat
    BY DEF TypeOK, PerCardOf
  <2>4. /\ button[t][c] = "sending" <=> wire[t][c] # "none"
        /\ button[t][c] = "thanked" \/ wire[t][c] = "stored" => stored[t][c] > 0
        /\ stored[t][c] <= doubts[t][c] + IF button[t][c] = "thanked" \/ wire[t][c] = "stored" THEN 1 ELSE 0
    BY DEF OneRequestAtATime, ThanksAreEarned
  <2>5. \A u \in Tags, e \in Cards : u # t \/ e # c =>
          /\ button'[u][e] = button[u][e] /\ wire'[u][e] = wire[u][e]
          /\ stored'[u][e] = stored[u][e] /\ doubts'[u][e] = doubts[u][e]
    BY DEF TypeOK, PerCardOf
  <2>6. /\ button'[t][c] = "sending" <=> wire'[t][c] # "none"
        /\ button'[t][c] = "thanked" \/ wire'[t][c] = "stored" => stored'[t][c] > 0
        /\ stored'[t][c] <= doubts'[t][c] + IF button'[t][c] = "thanked" \/ wire'[t][c] = "stored" THEN 1 ELSE 0
    BY <2>2, <2>3, <2>4 DEF TypeOK, PerCardOf
  <2> QED BY <2>1, <2>2, <2>5, <2>6, CardStep
<1>8. ASSUME NEW t \in Tags, NEW c \in Cards, ServerDecides(t, c) PROVE IInv'
  <2> USE <1>8 DEF ServerDecides
  <2>0. wire \in PerCardOf({"none", "sent", "stored", "refused"}) /\ stored \in PerCardOf(Nat)
    BY DEF TypeOK
  <2>1. TypeOK'
    <3>1. CASE /\ wire' = [wire EXCEPT ![t][c] = "stored"]
               /\ stored' = [stored EXCEPT ![t][c] = stored[t][c] + 1]
      <4>1. stored[t][c] + 1 \in Nat
        BY <2>0 DEF PerCardOf
      <4>2. wire' \in PerCardOf({"none", "sent", "stored", "refused"}) /\ stored' \in PerCardOf(Nat)
        BY ONLY <2>0, <3>1, <4>1, CardSet, t \in Tags, c \in Cards
      <4> QED BY <4>2 DEF TypeOK, page
    <3>2. CASE wire' = [wire EXCEPT ![t][c] = "refused"] /\ UNCHANGED stored
      <4>1. wire' \in PerCardOf({"none", "sent", "stored", "refused"})
        BY <2>0, <3>2, CardSet
      <4> QED BY <3>2, <4>1 DEF TypeOK, page
    <3> QED BY <3>1, <3>2
  <2>2. UNCHANGED page /\ button[t][c] \in {"ready", "sending", "thanked"}
    BY DEF TypeOK, PerCardOf
  <2>3. stored[t][c] \in Nat /\ doubts[t][c] \in Nat
    BY DEF TypeOK, PerCardOf
  <2>4. /\ button[t][c] = "sending" <=> wire[t][c] # "none"
        /\ button[t][c] = "thanked" \/ wire[t][c] = "stored" => stored[t][c] > 0
        /\ stored[t][c] <= doubts[t][c] + IF button[t][c] = "thanked" \/ wire[t][c] = "stored" THEN 1 ELSE 0
    BY DEF OneRequestAtATime, ThanksAreEarned
  <2>5. \A u \in Tags, e \in Cards : u # t \/ e # c =>
          /\ button'[u][e] = button[u][e] /\ wire'[u][e] = wire[u][e]
          /\ stored'[u][e] = stored[u][e] /\ doubts'[u][e] = doubts[u][e]
    BY DEF TypeOK, PerCardOf
  <2>6. /\ button'[t][c] = "sending" <=> wire'[t][c] # "none"
        /\ button'[t][c] = "thanked" \/ wire'[t][c] = "stored" => stored'[t][c] > 0
        /\ stored'[t][c] <= doubts'[t][c] + IF button'[t][c] = "thanked" \/ wire'[t][c] = "stored" THEN 1 ELSE 0
    BY <2>2, <2>3, <2>4 DEF TypeOK, PerCardOf
  <2> QED BY <2>1, <2>2, <2>5, <2>6, CardStep
<1>9. ASSUME NEW t \in Tags, NEW c \in Cards, Accepted(t, c) PROVE IInv'
  <2> USE <1>9 DEF Accepted, OnDone
  <2>1. TypeOK'
    BY DEF TypeOK, PerCardOf, page
  <2>2. UNCHANGED page /\ button[t][c] \in {"ready", "sending", "thanked"}
    BY DEF TypeOK, PerCardOf
  <2>3. stored[t][c] \in Nat /\ doubts[t][c] \in Nat
    BY DEF TypeOK, PerCardOf
  <2>4. /\ button[t][c] = "sending" <=> wire[t][c] # "none"
        /\ button[t][c] = "thanked" \/ wire[t][c] = "stored" => stored[t][c] > 0
        /\ stored[t][c] <= doubts[t][c] + IF button[t][c] = "thanked" \/ wire[t][c] = "stored" THEN 1 ELSE 0
    BY DEF OneRequestAtATime, ThanksAreEarned
  <2>5. \A u \in Tags, e \in Cards : u # t \/ e # c =>
          /\ button'[u][e] = button[u][e] /\ wire'[u][e] = wire[u][e]
          /\ stored'[u][e] = stored[u][e] /\ doubts'[u][e] = doubts[u][e]
    BY DEF TypeOK, PerCardOf
  <2>6. /\ button'[t][c] = "sending" <=> wire'[t][c] # "none"
        /\ button'[t][c] = "thanked" \/ wire'[t][c] = "stored" => stored'[t][c] > 0
        /\ stored'[t][c] <= doubts'[t][c] + IF button'[t][c] = "thanked" \/ wire'[t][c] = "stored" THEN 1 ELSE 0
    BY <2>2, <2>3, <2>4 DEF TypeOK, PerCardOf
  <2> QED BY <2>1, <2>2, <2>5, <2>6, CardStep
<1>10. ASSUME NEW t \in Tags, NEW c \in Cards, Refused(t, c) PROVE IInv'
  <2> USE <1>10 DEF Refused
  <2>1. TypeOK'
    BY DEF TypeOK, PerCardOf, page
  <2>2. UNCHANGED page /\ button[t][c] \in {"ready", "sending", "thanked"}
    BY DEF TypeOK, PerCardOf
  <2>3. stored[t][c] \in Nat /\ doubts[t][c] \in Nat
    BY DEF TypeOK, PerCardOf
  <2>4. /\ button[t][c] = "sending" <=> wire[t][c] # "none"
        /\ button[t][c] = "thanked" \/ wire[t][c] = "stored" => stored[t][c] > 0
        /\ stored[t][c] <= doubts[t][c] + IF button[t][c] = "thanked" \/ wire[t][c] = "stored" THEN 1 ELSE 0
    BY DEF OneRequestAtATime, ThanksAreEarned
  <2>5. \A u \in Tags, e \in Cards : u # t \/ e # c =>
          /\ button'[u][e] = button[u][e] /\ wire'[u][e] = wire[u][e]
          /\ stored'[u][e] = stored[u][e] /\ doubts'[u][e] = doubts[u][e]
    BY DEF TypeOK, PerCardOf
  <2>6. /\ button'[t][c] = "sending" <=> wire'[t][c] # "none"
        /\ button'[t][c] = "thanked" \/ wire'[t][c] = "stored" => stored'[t][c] > 0
        /\ stored'[t][c] <= doubts'[t][c] + IF button'[t][c] = "thanked" \/ wire'[t][c] = "stored" THEN 1 ELSE 0
    BY <2>2, <2>3, <2>4 DEF TypeOK, PerCardOf
  <2> QED BY <2>1, <2>2, <2>5, <2>6, CardStep
<1>11. ASSUME NEW t \in Tags, NEW c \in Cards, Lost(t, c) PROVE IInv'
  <2> USE <1>11 DEF Lost
  <2>1. TypeOK'
    BY DEF TypeOK, PerCardOf, page
  <2>2. UNCHANGED page /\ button[t][c] \in {"ready", "sending", "thanked"}
    BY DEF TypeOK, PerCardOf
  <2>3. stored[t][c] \in Nat /\ doubts[t][c] \in Nat
    BY DEF TypeOK, PerCardOf
  <2>4. /\ button[t][c] = "sending" <=> wire[t][c] # "none"
        /\ button[t][c] = "thanked" \/ wire[t][c] = "stored" => stored[t][c] > 0
        /\ stored[t][c] <= doubts[t][c] + IF button[t][c] = "thanked" \/ wire[t][c] = "stored" THEN 1 ELSE 0
    BY DEF OneRequestAtATime, ThanksAreEarned
  <2>5. \A u \in Tags, e \in Cards : u # t \/ e # c =>
          /\ button'[u][e] = button[u][e] /\ wire'[u][e] = wire[u][e]
          /\ stored'[u][e] = stored[u][e] /\ doubts'[u][e] = doubts[u][e]
    BY DEF TypeOK, PerCardOf
  <2>6. /\ button'[t][c] = "sending" <=> wire'[t][c] # "none"
        /\ button'[t][c] = "thanked" \/ wire'[t][c] = "stored" => stored'[t][c] > 0
        /\ stored'[t][c] <= doubts'[t][c] + IF button'[t][c] = "thanked" \/ wire'[t][c] = "stored" THEN 1 ELSE 0
    BY <2>2, <2>3, <2>4 DEF TypeOK, PerCardOf
  <2> QED BY <2>1, <2>2, <2>5, <2>6, CardStep
<1>12. ASSUME UNCHANGED vars PROVE IInv'
  BY <1>12, FormsKept, PageKept DEF vars, TypeOK, page, form
<1> QED BY <1>1, <1>2, <1>3, <1>4, <1>5, <1>6, <1>7, <1>8, <1>9, <1>10, <1>11, <1>12
        DEF Next, Load, Configure, Answer

LEMMA Invariance == FairSpec => []IInv
BY InitInv, NextInv, PTL DEF FairSpec
-----------------------------------------------------------------------------
(* What the page still owes is under way. *)

\* A loader that ran has mounted its widget, or queued it for a bundle that is
\* on its way, unless that could not be fetched.
QueueHasReader ==
  \A t \in Tags : script[t] = "ran" =>
    mounts[t] = 1 \/ (t \in queue /\ bundle \in {"fetching", "failed"})

\* Panels are numbered as they are built, and a new one starts with its form.
PanelsAreNumbered ==
  \A t \in Tags : /\ panel[t] <= built[t]
                  /\ \A c \in Cards : c > built[t] => button[t][c] = "ready"

\* Whoever looks at the thanks in a popover has a timer that will close it.
ThanksHaveTimer ==
  \A t \in Popovers, c \in Cards : panel[t] = c /\ button[t][c] = "thanked" => closers[t] > 0

NothingIsForgotten == QueueHasReader /\ PanelsAreNumbered /\ ThanksHaveTimer

LEMMA NothingForgottenStep == IInv /\ NothingIsForgotten /\ [Next]_vars => NothingIsForgotten'
<1> SUFFICES ASSUME IInv, NothingIsForgotten, [Next]_vars PROVE NothingIsForgotten'
  OBVIOUS
<1> USE DEF IInv, NothingIsForgotten, TypeOK, PerCardOf
<1>0. Popovers \subseteq Tags /\ Cards \subseteq Nat /\ \A c \in Cards : c > 0
  BY PageAssumption DEF Cards
<1>1. ASSUME UNCHANGED <<script, queue, bundle, mounts>> PROVE QueueHasReader'
  BY <1>1 DEF QueueHasReader
<1>2. ASSUME UNCHANGED <<built, panel, button, closers>> PROVE PanelsAreNumbered' /\ ThanksHaveTimer'
  BY <1>2 DEF PanelsAreNumbered, ThanksHaveTimer
<1>3. ASSUME BundleRuns \/ BundleFails PROVE NothingIsForgotten'
  <2>1. QueueHasReader'
    BY <1>3 DEF BundleRuns, BundleFails, Mount, QueueHasReader, QueuedOrMounted
  <2> QED BY <1>2, <1>3, <2>1 DEF BundleRuns, BundleFails, form
<1>4. ASSUME NEW t \in Tags, Load(t) PROVE NothingIsForgotten'
  <2>1. QueueHasReader'
    BY <1>4 DEF Load, LoaderRuns, LoaderFails, Mount, BundleReady, NeedsBundle, QueueHasReader,
                QueuedOrMounted, FlagTellsFetch
  <2> QED BY <1>2, <1>4, <2>1 DEF Load, LoaderRuns, LoaderFails, form
<1>5. ASSUME NEW t \in Tags, Configure(t) \/ Launch(t) \/ Close(t) PROVE NothingIsForgotten'
  <2>1. UNCHANGED <<script, queue, bundle, mounts, button, closers>>
    BY <1>5 DEF Configure, ConfigArrives, ConfigFails, Launch, Close, page, form
  <2>2. QueueHasReader'
    BY <1>1, <2>1
  <2>3. CASE BuildCard(t)
    <3>1. /\ built' \in [Tags -> Nat] /\ panel' \in [Tags -> Nat]
          /\ built'[t] = built[t] + 1 /\ panel'[t] = built[t] + 1
          /\ \A u \in Tags : u # t => built'[u] = built[u] /\ panel'[u] = panel[u]
      BY <2>3 DEF BuildCard
    <3>2. built \in [Tags -> Nat] /\ PanelsAreNumbered /\ ThanksHaveTimer
      OBVIOUS
    <3>3. PanelsAreNumbered'
      BY ONLY <1>0, <2>1, <3>1, <3>2, t \in Tags DEF PanelsAreNumbered
    <3>4. button[t][built[t] + 1] # "thanked" \/ built[t] + 1 \notin Cards
      BY ONLY <1>0, <3>2, t \in Tags DEF PanelsAreNumbered
    <3>5. ThanksHaveTimer'
      BY ONLY <1>0, <2>1, <3>1, <3>2, <3>4, t \in Tags DEF ThanksHaveTimer
    <3> QED BY <2>2, <3>3, <3>5
  <2>4. CASE UNCHANGED <<built, panel>>
    BY <1>2, <2>1, <2>2, <2>4
  <2>5. CASE panel' = [panel EXCEPT ![t] = 0] /\ UNCHANGED built
    BY <1>0, <2>1, <2>2, <2>5 DEF PanelsAreNumbered, ThanksHaveTimer
  <2> QED BY <1>5, <2>3, <2>4, <2>5 DEF Configure, ConfigArrives, ConfigFails, Launch, Close
<1>6. ASSUME NEW t \in Tags, TimerFires(t) PROVE NothingIsForgotten'
  <2> USE <1>6 DEF TimerFires, page, form
  <2>1. QueueHasReader'
    BY <1>1
  <2>2. PanelsAreNumbered' /\ ThanksHaveTimer'
    BY <1>0 DEF PanelsAreNumbered, ThanksHaveTimer
  <2> QED BY <2>1, <2>2
<1>7. ASSUME NEW t \in Tags, NEW c \in Cards, Submit(t, c) \/ Answer(t, c) PROVE NothingIsForgotten'
  <2>1. /\ UNCHANGED <<page, built, panel>>
        /\ \A u \in Tags, e \in Cards : u # t \/ e # c => button'[u][e] = button[u][e]
    BY <1>7 DEF Submit, Answer, ServerDecides, Accepted, Refused, Lost
  <2>2. button'[t][c] # button[t][c] => c <= built[t]
    BY <1>0, <1>7 DEF Submit, Answer, ServerDecides, Accepted, Refused, Lost, PanelsAreNumbered,
                      OneRequestAtATime
  <2>3. closers' \in [Tags -> Nat] /\ \A u \in Tags : closers'[u] >= closers[u]
    <3>1. closers' = closers \/ closers' = [closers EXCEPT ![t] = IF t \in Popovers THEN @ + 1 ELSE @]
      BY <1>7 DEF Submit, Answer, ServerDecides, Accepted, OnDone, Refused, Lost
    <3>2. CASE closers' = closers
      BY <3>2
    <3>3. CASE closers' = [closers EXCEPT ![t] = IF t \in Popovers THEN @ + 1 ELSE @]
      BY <3>3
    <3> QED BY <3>1, <3>2, <3>3
  <2>4. t \in Popovers /\ button'[t][c] = "thanked" => button[t][c] = "thanked" \/ closers'[t] > 0
    BY <1>7 DEF Submit, Answer, ServerDecides, Accepted, OnDone, Refused, Lost
  <2>5. QueueHasReader'
    BY <1>1, <2>1 DEF page
  <2>6. PanelsAreNumbered'
    BY <1>0, <2>1, <2>2 DEF PanelsAreNumbered
  <2>7. ThanksHaveTimer'
    BY <1>0, <2>1, <2>3, <2>4 DEF ThanksHaveTimer
  <2> QED BY <2>5, <2>6, <2>7
<1>8. ASSUME UNCHANGED vars PROVE NothingIsForgotten'
  BY <1>1, <1>2, <1>8 DEF vars, page, form
<1> QED BY <1>3, <1>4, <1>5, <1>6, <1>7, <1>8 DEF Next
-----------------------------------------------------------------------------
(* The theorems. *)

\* LOADER_TEMPLATE and the bundle's queue: for any number of tags, and whatever
\* order loaders and bundle come in, one bundle and one mount for each tag.
THEOREM LoadsOnce == FairSpec => []LoadedOnceMountedOnce
<1>1. IInv => LoadedOnceMountedOnce
  BY DEF IInv, TypeOK, FlagTellsFetch, QueuedOrMounted, LoadedOnceMountedOnce
<1> QED BY <1>1, Invariance, PTL

\* The submit handler: nobody is thanked for nothing, and a card stores as many
\* submissions as answers were lost, and one more, however often it is sent.
THEOREM ThanksFollowStorage == FairSpec => []ThanksAreEarned
<1>1. IInv => ThanksAreEarned
  BY DEF IInv
<1> QED BY <1>1, Invariance, PTL

\* What CardsComeToRest and EveryLoaderMounts wait for is always under way: no
\* order of loaders leaves a widget in a queue that nobody reads, and no panel
\* shows thanks without a timer, also when timers of older panels close it.
THEOREM NothingIsStuck == FairSpec => []NothingIsForgotten
<1>1. Init => NothingIsForgotten
  BY DEF Init, NothingIsForgotten, QueueHasReader, PanelsAreNumbered, ThanksHaveTimer, PerCard, Cards
<1> QED BY <1>1, NothingForgottenStep, Invariance, PTL DEF FairSpec
=============================================================================
