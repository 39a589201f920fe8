------------------------------ MODULE Notices -------------------------------
(***************************************************************************)
(* The product bot's notifications to a chat (notices.ts): every tick      *)
(* takes what was indexed since the chat was linked, within a window, and  *)
(* was not handled yet; each notice is claimed in the database, then sent. *)
(*                                                                         *)
(* A source (a sweep, a control, a skipped day) is its place in time, and  *)
(* has a notice of its own; a sweep that reaches a share of the user's     *)
(* goal has a second one, the milestone.  Sources are indexed in any       *)
(* order, and whether one is worth a message is read from the chain on     *)
(* every tick.                                                             *)
(***************************************************************************)
EXTENDS Leader

CONSTANTS
    MaxSources,     \* bound: sources of notices
    Milestones,     \* the sources with a milestone
    MaxChanges      \* bound: times the user links or unlinks the chat

VARIABLES
    happened,   \* sources so far
    old,        \* how many of them are out of the window
    indexed,    \* tables sweeps, user_events, sweep_attempts
    handled,    \* table telegram_notifications
    link,       \* table telegram_links: [active, since], since counting sources
    tick,       \* of each process: the tick in progress
    accepted,   \* history: of each notice, the messages Telegram answered for
    unsent,     \* history: notices handled without a message Telegram answered for
    changes     \* changes by the user so far

database == <<indexed, handled, link>>
histories == <<accepted, unsent>>
vars == <<leadership, happened, old, database, tick, histories, changes>>

Sources == 1..MaxSources
Keys == {<<n, "own">> : n \in Sources} \cup {<<n, "goal">> : n \in Milestones}
Stages == {"idle", "next", "claimed", "refused", "failed"}
NoTick == [stage |-> "idle", todo |-> {}]

NoticesTypeOK ==
    /\ LeaderTypeOK
    /\ happened \in 0..MaxSources
    /\ old \in 0..MaxSources
    /\ indexed \in SUBSET Sources
    /\ handled \in SUBSET Keys
    /\ link \in [active : BOOLEAN, since : 0..MaxSources]
    /\ tick \in [Processes -> [stage : Stages, todo : SUBSET Keys]]
    /\ accepted \in [Keys -> Nat]
    /\ unsent \in SUBSET Keys
    /\ changes \in 0..MaxChanges

Init ==
    /\ LeaderInit
    /\ happened = 0 /\ old = 0
    /\ indexed = {} /\ handled = {}
    /\ link = [active |-> TRUE, since |-> 0]
    /\ tick = [p \in Processes |-> NoTick]
    /\ accepted = [n \in Keys |-> 0]
    /\ unsent = {}
    /\ changes = 0

-----------------------------------------------------------------------------
(* The sources a tick selects, by the key of their own notice; what it     *)
(* delivers of them; and the notice it delivers next: the oldest, a        *)
(* source's own before its milestone.                                      *)
Due == {n \in indexed : link.active /\ n > link.since /\ n > old /\ <<n, "own">> \notin handled}
Todo == {x \in Keys : x[1] \in Due}
Before(x, y) == x[1] < y[1] \/ (x[1] = y[1] /\ x[2] = "own")
Oldest(p) == CHOOSE x \in tick[p].todo : \A y \in tick[p].todo \ {x} : Before(x, y)

(* p's tick when these notices are done with. *)
Without(p, done) ==
    LET todo == tick[p].todo \ done
    IN  IF todo = {} THEN NoTick
        ELSE [stage |-> "next", todo |-> todo]
Rest(p) == Without(p, {Oldest(p)})

Tick(p) ==
    /\ Leads(p) /\ tick[p].stage = "idle" /\ Due # {}
    /\ tick' = [tick EXCEPT ![p] = [stage |-> "next", todo |-> Todo]]
    /\ UNCHANGED <<leadership, happened, old, database, histories, changes>>

\* Faulty: a row that is there already does not stop the send.
ClaimAnyway(p) ==
    /\ Runs(p) /\ tick[p].stage = "next"
    /\ handled' = handled \cup {Oldest(p)}
    /\ tick' = [tick EXCEPT ![p].stage = "claimed"]
    /\ UNCHANGED <<leadership, happened, old, indexed, link, histories, changes>>

(* deliver: the row is inserted unless it is there.  A notice without text, *)
(* by what the tick read of the user, is done with it, and has no           *)
(* milestone.                                                               *)
Claim(p) ==
    /\ Runs(p) /\ tick[p].stage = "next"
    /\ handled' = handled \cup {Oldest(p)}
    /\ \/ /\ Oldest(p) \notin handled
          /\ \/ tick' = [tick EXCEPT ![p].stage = "claimed"] /\ UNCHANGED unsent
             \/ LET source == {x \in Keys : x[1] = Oldest(p)[1]}
                IN  /\ Oldest(p)[2] = "own"
                    /\ tick' = [tick EXCEPT ![p] = Without(p, source)]
                    /\ unsent' = unsent \cup source
       \/ /\ Oldest(p) \in handled
          /\ tick' = [tick EXCEPT ![p] = Rest(p)] /\ UNCHANGED unsent
    /\ UNCHANGED <<leadership, happened, old, indexed, link, accepted, changes>>

Accept(p) ==
    /\ Runs(p) /\ tick[p].stage = "claimed"
    /\ accepted' = [accepted EXCEPT ![Oldest(p)] = @ + 1]
    /\ tick' = [tick EXCEPT ![p] = Rest(p)]
    /\ UNCHANGED <<leadership, happened, old, database, unsent, changes>>

(* 403: the user blocked the bot, or the chat is gone. *)
Refuse(p) ==
    /\ Runs(p) /\ tick[p].stage = "claimed"
    /\ tick' = [tick EXCEPT ![p].stage = "refused"]
    /\ UNCHANGED <<leadership, happened, old, database, histories, changes>>

(* Any other error; the message may have arrived all the same. *)
SendFails(p) ==
    /\ Runs(p) /\ tick[p].stage = "claimed"
    /\ tick' = [tick EXCEPT ![p].stage = "failed"]
    /\ UNCHANGED <<leadership, happened, old, database, histories, changes>>

(* The chat's link ends, and the claim stays. *)
Revoke(p) ==
    /\ Runs(p) /\ tick[p].stage = "refused"
    /\ link' = [link EXCEPT !.active = FALSE]
    /\ unsent' = unsent \cup {Oldest(p)}
    /\ tick' = [tick EXCEPT ![p] = Rest(p)]
    /\ UNCHANGED <<leadership, happened, old, indexed, handled, accepted, changes>>

\* Faulty: the claim of a send that failed is kept.
UnclaimNothing(p) ==
    /\ Runs(p) /\ tick[p].stage = "failed"
    /\ tick' = [tick EXCEPT ![p] = NoTick]
    /\ UNCHANGED <<leadership, happened, old, database, histories, changes>>

(* The claim is deleted and the tick stops, to try again on the next one. *)
Unclaim(p) ==
    /\ Runs(p) /\ tick[p].stage = "failed"
    /\ handled' = handled \ {Oldest(p)}
    /\ tick' = [tick EXCEPT ![p] = NoTick]
    /\ UNCHANGED <<leadership, happened, old, indexed, link, histories, changes>>

(* What a tick that ends in the middle leaves claimed. *)
Leaves(p) ==
    /\ tick' = [tick EXCEPT ![p] = NoTick]
    /\ unsent' = IF tick[p].stage \in {"claimed", "refused", "failed"} THEN unsent \cup {Oldest(p)} ELSE unsent
    /\ UNCHANGED <<happened, old, database, accepted, changes>>

(* The database fails; a send that is under way ends first. *)
Fail(p) ==
    /\ Runs(p) /\ tick[p].stage \in {"next", "refused", "failed"}
    /\ Leaves(p)
    /\ UNCHANGED leadership

EndProcess(p) ==
    /\ Ends(p) \/ (tick[p].stage = "idle" /\ Release(p))
    /\ Leaves(p)

Lead == Handover /\ UNCHANGED <<happened, old, database, tick, histories, changes>>

-----------------------------------------------------------------------------
Happen ==
    /\ happened < MaxSources
    /\ happened' = happened + 1
    /\ UNCHANGED <<leadership, old, database, tick, histories, changes>>

Age ==
    /\ old < happened
    /\ old' = old + 1
    /\ UNCHANGED <<leadership, happened, database, tick, histories, changes>>

Index ==
    /\ \E n \in (1..happened) \ indexed : indexed' = indexed \cup {n}
    /\ UNCHANGED <<leadership, happened, old, handled, link, tick, histories, changes>>

Change ==
    /\ changes < MaxChanges
    /\ changes' = changes + 1
    /\ UNCHANGED <<leadership, happened, old, indexed, handled, tick, histories>>

(* The bot answers /start with a token, and /unlink (bot.ts). *)
Link == Change /\ link' = [active |-> TRUE, since |-> happened]
Unlink == Change /\ link.active /\ link' = [link EXCEPT !.active = FALSE]

Next ==
    \/ Lead
    \/ Happen \/ Age \/ Index
    \/ Link \/ Unlink
    \/ \E p \in Processes :
         \/ Tick(p) \/ Claim(p) \/ Accept(p) \/ Refuse(p) \/ SendFails(p)
         \/ Revoke(p) \/ Unclaim(p) \/ Fail(p) \/ EndProcess(p)

Spec == Init /\ [][Next]_vars

-----------------------------------------------------------------------------
(* A message Telegram answered for is never sent again, by any process,    *)
(* whatever ended before it (Notices.deliver: "recorded before it is sent, *)
(* so a restart never repeats one").                                       *)
NeverSentAgain == \A x \in Keys : accepted[x] <= 1

(* A notice that is recorded as handled was accepted by Telegram, is being *)
(* delivered, or needed no message, unless its claim was left behind by a  *)
(* process that ended, a database that failed or a chat that refused it:   *)
(* two processes that deliver at once and sends that fail lose none        *)
(* (Notices.deliver).                                                      *)
Delivers(p, x) == tick[p].stage \in {"claimed", "refused", "failed"} /\ Oldest(p) = x
HandledMeansTold ==
    \A x \in handled : accepted[x] > 0 \/ x \in unsent \/ \E p \in Processes : Delivers(p, x)

(* "Shares of the goal that each send one message the first time the       *)
(* invested total reaches them" (GOAL_MILESTONES), each "handled once,     *)
(* across restarts" (telegramNotifications): until a milestone is handled, *)
(* or its source was found not worth a message, a tick has it to deliver   *)
(* or the next one will.                                                   *)
MilestoneStaysDue ==
    \A n \in Milestones \cap indexed :
        (link.active /\ n > link.since /\ n > old /\ <<n, "goal">> \notin handled \cup unsent)
            => n \in Due \/ \E p \in Processes : Runs(p) /\ <<n, "goal">> \in tick[p].todo
=============================================================================
