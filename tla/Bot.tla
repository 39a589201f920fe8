-------------------------------- MODULE Bot ---------------------------------
(***************************************************************************)
(* The product bot's conversation with one chat (bot.ts): updates are read *)
(* from Telegram by long polling, answered in order, and confirmed by the  *)
(* next poll's offset, which a process keeps in memory.  A process that    *)
(* ends leaves what it had not confirmed to the next one, answered or not. *)
(***************************************************************************)
EXTENDS Leader

CONSTANTS
    Tokens,         \* the one-time tokens of the wallet's signed requests
    MaxUpdates      \* bound: updates of the chat

VARIABLES
    updates,    \* what each update says: a token (/start) or "unlink"
    sent,       \* updates sent so far
    confirmed,  \* Telegram: updates confirmed, never returned again
    usable,     \* table telegram_link_requests: tokens unused and not expired
    link,       \* table telegram_links: the update the active link is from, or 0
    offset,     \* memory of each process
    batch,      \* of each process: the updates left to answer, [from, upto]
    answered,   \* history: updates answered, in the database at least
    failed      \* history: updates an answer failed for

tables == <<usable, link>>
vars == <<leadership, updates, sent, confirmed, tables, offset, batch, answered, failed>>

Updates == 1..MaxUpdates
Commands == Tokens \cup {"unlink"}
Nothing == [from |-> 1, upto |-> 0]
Busy(p) == batch[p].from <= batch[p].upto

BotTypeOK ==
    /\ LeaderTypeOK
    /\ updates \in [Updates -> Commands]
    /\ sent \in 0..MaxUpdates
    /\ confirmed \in 0..MaxUpdates
    /\ usable \in SUBSET Tokens
    /\ link \in 0..MaxUpdates
    /\ offset \in [Processes -> 0..(MaxUpdates + 1)]
    /\ batch \in [Processes -> [from : 1..(MaxUpdates + 1), upto : 0..MaxUpdates]]
    /\ answered \in SUBSET Updates
    /\ failed \in SUBSET Updates

Init ==
    /\ LeaderInit
    /\ updates \in [Updates -> Commands]
    /\ sent = 0 /\ confirmed = 0
    /\ usable = Tokens
    /\ link = 0
    /\ offset = [p \in Processes |-> 0]
    /\ batch = [p \in Processes |-> Nothing]
    /\ answered = {} /\ failed = {}

-----------------------------------------------------------------------------
Write ==
    /\ sent < MaxUpdates
    /\ sent' = sent + 1
    /\ UNCHANGED <<leadership, updates, confirmed, tables, offset, batch, answered, failed>>

(* getUpdates confirms what is below the offset, and returns the rest. *)
GetUpdates(p) ==
    /\ Leads(p) /\ ~Busy(p)
    /\ confirmed' = IF offset[p] > confirmed THEN offset[p] - 1 ELSE confirmed
    /\ confirmed' < sent
    /\ batch' = [batch EXCEPT ![p] = [from |-> confirmed' + 1, upto |-> sent]]
    /\ UNCHANGED <<leadership, updates, sent, tables, offset, answered, failed>>

(* The offset moves first; then the answer, one transaction of the database. *)
Take(p) ==
    /\ Runs(p) /\ Busy(p)
    /\ offset' = [offset EXCEPT ![p] = batch[p].from + 1]

\* Faulty: the request's use is not recorded.
AnswerReusing(p) ==
    /\ Take(p)
    /\ LET u == batch[p].from
       IN  /\ link' = IF updates[u] = "unlink" THEN 0 ELSE IF updates[u] \in usable THEN u ELSE link
           /\ answered' = answered \cup {u}
           /\ \E replied \in BOOLEAN :
                batch' = [batch EXCEPT ![p] = IF replied THEN [@ EXCEPT !.from = u + 1] ELSE Nothing]
    /\ UNCHANGED <<leadership, updates, sent, confirmed, usable, failed>>

(* A token is spent and makes the link; /unlink revokes it.  A reply that  *)
(* fails ends the poll, and what it had not answered is read again.        *)
Answer(p) ==
    /\ Take(p)
    /\ LET u == batch[p].from
       IN  /\ link' = IF updates[u] = "unlink" THEN 0 ELSE IF updates[u] \in usable THEN u ELSE link
           /\ usable' = usable \ {updates[u]}
           /\ answered' = answered \cup {u}
           /\ \E replied \in BOOLEAN :
                batch' = [batch EXCEPT ![p] = IF replied THEN [@ EXCEPT !.from = u + 1] ELSE Nothing]
    /\ UNCHANGED <<leadership, updates, sent, confirmed, failed>>

(* The database fails: the poll ends, past the update. *)
Fail(p) ==
    /\ Take(p)
    /\ failed' = failed \cup {batch[p].from}
    /\ batch' = [batch EXCEPT ![p] = Nothing]
    /\ UNCHANGED <<leadership, updates, sent, confirmed, tables, answered>>

Expire ==
    /\ \E t \in usable : usable' = usable \ {t}
    /\ UNCHANGED <<leadership, updates, sent, confirmed, link, offset, batch, answered, failed>>

EndProcess(p) ==
    /\ Ends(p) \/ (~Busy(p) /\ Release(p))
    /\ batch' = [batch EXCEPT ![p] = Nothing]
    /\ offset' = [offset EXCEPT ![p] = 0]
    /\ UNCHANGED <<updates, sent, confirmed, tables, answered, failed>>

Lead == Handover /\ UNCHANGED <<updates, sent, confirmed, tables, offset, batch, answered, failed>>

Next ==
    \/ Write \/ Expire
    \/ Lead
    \/ \E p \in Processes : GetUpdates(p) \/ Answer(p) \/ Fail(p) \/ EndProcess(p)

Spec == Init /\ [][Next]_vars

-----------------------------------------------------------------------------
(* What /unlink revoked stays revoked: no command from before an answered  *)
(* /unlink links the chat again, however often a restart has updates       *)
(* answered twice, unless its first answer failed and a process that had   *)
(* lost the lock answered it late (TelegramBot.link, poll).                *)
UnlinkStands ==
    link # 0 /\ (\E u \in answered : u > link /\ updates[u] = "unlink") => link \in failed
=============================================================================
