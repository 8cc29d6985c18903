----------------------------- MODULE WidgetPage -----------------------------
(***************************************************************************)
(* One customer page and one visitor: the loaders its script tags run      *)
(* (LOADER_TEMPLATE in app/services/delivery.py), the bundle they share    *)
(* (app/static/widget.v1.js), the widgets it mounts, their forms and the   *)
(* popover's panel.  Scripts, callbacks and timers of a page run one at a  *)
(* time and to their end: each is one action, in any order the network and *)
(* the visitor choose.                                                     *)
(*                                                                         *)
(* Abstracted: what the form asks and what its messages say; the server,   *)
(* which stores a submission or refuses it, and whose answer may get lost. *)
(***************************************************************************)
EXTENDS Naturals, FiniteSets

CONSTANTS Tags,     \* the page's script tags, one widget each
          Popovers, \* those whose config says layout: "popover"
          MaxCards, \* bound: panels the visitor opens per popover
          MaxSends  \* bound: submits per card

ASSUME PageAssumption == Popovers \subseteq Tags /\ MaxCards \in Nat \ {0} /\ MaxSends \in Nat \ {0}

Cards == 1..MaxCards

VARIABLES script,  \* per tag: its loader is "fetching", "ran" or "failed"
          loading, \* window.__leadWidgetLoading
          queue,   \* window.__leadWidgetQueue
          bundle,  \* "absent", "fetching", "ready" (window.LeadWidget is set) or "failed"
          fetches, \* bundle elements put on the page
          widget,  \* per tag: "none", "fetching" its config, "blank" or "shown"
          mounts,  \* per tag: calls of mount
          built,   \* per tag: cards built so far
          panel,   \* per tag: the card on the page, 0 for none
          button,  \* per card: "ready", "sending" or "thanked" (the form is gone)
          wire,    \* per card: its request: "none", "sent", "stored" or "refused"
          sends, stored, doubts, \* per card: submits, submissions stored, answers lost
          closers  \* per tag: timers that will close the panel

page == <<script, loading, queue, bundle, fetches, widget, mounts>>
form == <<button, wire, sends, stored, doubts>>
vars == <<page, built, panel, form, closers>>

PerCard(value) == [t \in Tags |-> [c \in Cards |-> value]]

Init == /\ script = [t \in Tags |-> "fetching"]
        /\ loading = FALSE
        /\ queue = {}
        /\ bundle = "absent"
        /\ fetches = 0
        /\ widget = [t \in Tags |-> "none"]
        /\ mounts = [t \in Tags |-> 0]
        /\ built = [t \in Tags |-> 0]
        /\ panel = [t \in Tags |-> 0]
        /\ button = PerCard("ready")
        /\ wire = PerCard("none")
        /\ sends = PerCard(0) /\ stored = PerCard(0) /\ doubts = PerCard(0)
        /\ closers = [t \in Tags |-> 0]
-----------------------------------------------------------------------------
(* Loaders and bundle. *)

\* mount sends for the config.
Mount(S) == /\ widget' = [t \in Tags |-> IF t \in S THEN "fetching" ELSE widget[t]]
            /\ mounts' = [t \in Tags |-> IF t \in S THEN mounts[t] + 1 ELSE mounts[t]]

\* Mutants: every loader fetches the bundle; a loader that comes after the
\* bundle still queues.
NeedsBundleAlways == TRUE
NeedsBundle == ~loading
BundleReadyNever == FALSE
BundleReady == bundle = "ready"

LoaderRuns(t) ==
  /\ script[t] = "fetching"
  /\ script' = [script EXCEPT ![t] = "ran"]
  /\ \/ /\ BundleReady
        /\ Mount({t})
        /\ UNCHANGED <<loading, queue, bundle, fetches>>
     \/ /\ ~BundleReady
        /\ queue' = queue \cup {t}
        /\ loading' = TRUE
        /\ fetches' = IF NeedsBundle THEN fetches + 1 ELSE fetches
        /\ bundle' = IF NeedsBundle THEN "fetching" ELSE bundle
        /\ UNCHANGED <<widget, mounts>>
  /\ UNCHANGED <<built, panel, form, closers>>

\* 404 for a widget that is off, or no network: nothing runs.
LoaderFails(t) == /\ script[t] = "fetching"
                  /\ script' = [script EXCEPT ![t] = "failed"]
                  /\ UNCHANGED <<loading, queue, bundle, fetches, widget, mounts, built, panel, form, closers>>

BundleRuns == /\ bundle = "fetching"
              /\ bundle' = "ready"
              /\ Mount(queue)
              /\ queue' = {}
              /\ UNCHANGED <<script, loading, fetches, built, panel, form, closers>>

\* No handler: the flag stays set and the queue stays full.
BundleFails == /\ bundle = "fetching"
               /\ bundle' = "failed"
               /\ UNCHANGED <<script, loading, queue, fetches, widget, mounts, built, panel, form, closers>>
-----------------------------------------------------------------------------
(* The widget on the page. *)

BuildCard(t) == /\ built' = [built EXCEPT ![t] = @ + 1]
                /\ panel' = [panel EXCEPT ![t] = built[t] + 1]

\* An inline widget shows its card, a popover only its launcher.
ConfigArrives(t) ==
  /\ widget[t] = "fetching"
  /\ widget' = [widget EXCEPT ![t] = "shown"]
  /\ IF t \in Popovers THEN UNCHANGED <<built, panel>> ELSE BuildCard(t)
  /\ UNCHANGED <<script, loading, queue, bundle, fetches, mounts, form, closers>>

ConfigFails(t) == /\ widget[t] = "fetching"
                  /\ widget' = [widget EXCEPT ![t] = "blank"]
                  /\ UNCHANGED <<script, loading, queue, bundle, fetches, mounts, built, panel, form, closers>>

\* The launcher is hidden while the panel is there.
Launch(t) == /\ t \in Popovers /\ widget[t] = "shown" /\ panel[t] = 0
             /\ built[t] < MaxCards
             /\ BuildCard(t)
             /\ UNCHANGED <<page, form, closers>>

\* The cross is part of the card, which the thanks replace.
Close(t) == /\ t \in Popovers /\ panel[t] # 0
            /\ button[t][panel[t]] # "thanked"
            /\ panel' = [panel EXCEPT ![t] = 0]
            /\ UNCHANGED <<page, built, form, closers>>

\* setTimeout(close, 2200): whatever panel is there then.
TimerFires(t) == /\ closers[t] > 0
                 /\ closers' = [closers EXCEPT ![t] = @ - 1]
                 /\ panel' = [panel EXCEPT ![t] = 0]
                 /\ UNCHANGED <<page, built, form>>
-----------------------------------------------------------------------------
(* The form.  A closed card is off the page and still answered. *)

Submit(t, c) == /\ panel[t] = c /\ button[t][c] = "ready" /\ sends[t][c] < MaxSends
                /\ button' = [button EXCEPT ![t][c] = "sending"]
                /\ wire' = [wire EXCEPT ![t][c] = "sent"]
                /\ sends' = [sends EXCEPT ![t][c] = @ + 1]
                /\ UNCHANGED <<page, built, panel, stored, doubts, closers>>

\* The request carries no Idempotency-Key: every one that is accepted is new.
ServerDecides(t, c) ==
  /\ wire[t][c] = "sent"
  /\ \/ /\ wire' = [wire EXCEPT ![t][c] = "stored"]
        /\ stored' = [stored EXCEPT ![t][c] = @ + 1]
     \/ /\ wire' = [wire EXCEPT ![t][c] = "refused"]
        /\ UNCHANGED stored
  /\ UNCHANGED <<page, built, panel, button, sends, doubts, closers>>

\* Mutant: nobody closes the popover after the thanks.
OnDoneNothing(t) == UNCHANGED closers
OnDone(t) == closers' = [closers EXCEPT ![t] = IF t \in Popovers THEN @ + 1 ELSE @]

Accepted(t, c) == /\ wire[t][c] = "stored"
                  /\ button' = [button EXCEPT ![t][c] = "thanked"]
                  /\ wire' = [wire EXCEPT ![t][c] = "none"]
                  /\ OnDone(t)
                  /\ UNCHANGED <<page, built, panel, sends, stored, doubts>>

\* Mutant: any answer is thanked for.
RefusedThanked(t, c) == /\ wire[t][c] = "refused"
                        /\ button' = [button EXCEPT ![t][c] = "thanked"]
                        /\ wire' = [wire EXCEPT ![t][c] = "none"]
                        /\ UNCHANGED <<page, built, panel, sends, stored, doubts, closers>>
Refused(t, c) == /\ wire[t][c] = "refused"
                 /\ button' = [button EXCEPT ![t][c] = "ready"]
                 /\ wire' = [wire EXCEPT ![t][c] = "none"]
                 /\ UNCHANGED <<page, built, panel, sends, stored, doubts, closers>>

\* The connection breaks, before or after the server decided, or an error
\* answer hides a commit: the visitor may click again.
Lost(t, c) == /\ wire[t][c] # "none"
              /\ button' = [button EXCEPT ![t][c] = "ready"]
              /\ wire' = [wire EXCEPT ![t][c] = "none"]
              /\ doubts' = [doubts EXCEPT ![t][c] = @ + 1]
              /\ UNCHANGED <<page, built, panel, sends, stored, closers>>
-----------------------------------------------------------------------------
Answer(t, c) == ServerDecides(t, c) \/ Accepted(t, c) \/ Refused(t, c) \/ Lost(t, c)
Load(t) == LoaderRuns(t) \/ LoaderFails(t)
Configure(t) == ConfigArrives(t) \/ ConfigFails(t)

Next == \/ BundleRuns \/ BundleFails
        \/ \E t \in Tags : \/ Load(t) \/ Configure(t)
                           \/ Launch(t) \/ Close(t) \/ TimerFires(t)
                           \/ \E c \in Cards : Submit(t, c) \/ Answer(t, c)

\* Every fetch ends, one way or the other, and timers fire; a visitor owes
\* nothing.
Fairness == /\ WF_vars(BundleRuns \/ BundleFails)
            /\ \A t \in Tags : WF_vars(Load(t)) /\ WF_vars(Configure(t)) /\ WF_vars(TimerFires(t))
            /\ \A t \in Tags, c \in Cards : WF_vars(Answer(t, c))

FairSpec == Init /\ [][Next]_vars /\ Fairness
-----------------------------------------------------------------------------
(* Properties. *)

\* "Two widgets on one page must not download the bundle twice" (the loader),
\* and the queue they share mounts no widget twice.
LoadedOnceMountedOnce == fetches <= 1 /\ \A t \in Tags : mounts[t] <= 1

\* A visitor is thanked only for a submission that is stored, and a card stores
\* a second one only after an answer to the first was lost.
ThanksAreEarned ==
  \A t \in Tags, c \in Cards :
    /\ button[t][c] = "thanked" => stored[t][c] > 0
    /\ stored[t][c] <= doubts[t][c] + IF button[t][c] = "thanked" \/ wire[t][c] = "stored" THEN 1 ELSE 0

\* Every loader that ran gets its widget mounted, in whatever order loaders and
\* bundle arrive, unless the bundle itself cannot be fetched.
EveryLoaderMounts == \A t \in Tags : script[t] = "ran" ~> mounts[t] > 0 \/ bundle = "failed"

SendingEnds == \A t \in Tags, c \in Cards : button[t][c] = "sending" ~> button[t][c] # "sending"
ThanksGiveWay ==
  \A t \in Popovers, c \in Cards : panel[t] = c /\ button[t][c] = "thanked" ~> panel[t] # c

\* A card never gets stuck: no outcome of a request leaves its button disabled,
\* and as the thanks take the cross away, their panel goes by itself for the
\* launcher to come back.
CardsComeToRest == SendingEnds /\ ThanksGiveWay
=============================================================================
