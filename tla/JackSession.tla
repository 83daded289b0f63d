------------------------------ MODULE JackSession ------------------------------
(* Saving a session: jack_session_notify asks the server, which asks every     *)
(* client with a session callback; a client answers at once or later, and the  *)
(* server passes the answers on and ends them with an empty UUID               *)
(* (jackd/engine.c, jack_remove_client, libjack/client.c).                     *)
EXTENDS Integers, Sequences, FiniteSets, SequencesExt

CONSTANTS
    Managers,       \* clients that call jack_session_notify
    Savers,         \* clients with a session callback
    MaxNotifies     \* bound: calls of it

NoFd == "none"
Final == "final"

ASSUME SessionAssumption ==
    IsFiniteSet(Savers) /\ Final \notin Savers /\ NoFd \notin Managers /\ MaxNotifies \in Nat

VARIABLES
    session_reply_fd,           \* the manager it belongs to, or NoFd
    session_pending_replies,
    session_reply_pending,      \* savers with the flag
    owing,                      \* savers whose answer is to come
    removed,                    \* savers that are gone
    calling,                    \* managers that wait in jack_session_notify
    answers,                    \* what was written to a manager, and not read
    overlap,                    \* a call came while another was not answered
    notifies

sessionVars == <<session_reply_fd, session_pending_replies, session_reply_pending,
                 owing, removed, calling, answers, overlap, notifies>>

SessionInit ==
    /\ session_reply_fd = NoFd
    /\ session_pending_replies = 0
    /\ session_reply_pending = {}
    /\ owing = {}
    /\ removed = {}
    /\ calling = {}
    /\ answers = [m \in Managers |-> <<>>]
    /\ overlap = FALSE
    /\ notifies = 0

Written(m, what) == answers' = [answers EXCEPT ![m] = @ \o what]

\* jack_do_session_notify for a directory that is there. Each saver is skipped,
\* answers in its callback, or later.
AsksSavers(m, now, later) ==
    /\ session_reply_pending' = session_reply_pending \cup later
    /\ session_pending_replies' = Cardinality(later)
    /\ owing' = owing \cup later
    /\ IF later = {}
       THEN /\ Written(m, Append(SetToSeq(now), Final))
            /\ session_reply_fd' = NoFd
       ELSE /\ Written(m, SetToSeq(now))
            /\ session_reply_fd' = m

\* "just sending empty reply now": a call that finds another one open, and one
\* for a directory that is not there.
SendsFinal(m) ==
    /\ Written(m, <<Final>>)
    /\ session_reply_fd' = NoFd
    /\ session_pending_replies' =
         IF session_reply_fd = NoFd THEN 0 ELSE session_pending_replies
    /\ UNCHANGED <<session_reply_pending, owing>>

Notifies(m) ==
    /\ notifies < MaxNotifies
    /\ notifies' = notifies + 1
    /\ m \notin calling
    /\ calling' = calling \cup {m}
    /\ overlap' = (overlap \/ session_reply_fd # NoFd)
    /\ IF session_reply_fd # NoFd THEN SendsFinal(m)
       ELSE \/ SendsFinal(m)
            \/ \E now, later \in SUBSET (Savers \ removed) :
                 now \cap later = {} /\ AsksSavers(m, now, later)
    /\ UNCHANGED removed

\* One of the pending answers is there, or will never be.
OneLess(what) ==
    /\ session_pending_replies' = session_pending_replies - 1
    /\ LET last == session_pending_replies = 1
       IN  /\ Written(session_reply_fd, IF last THEN Append(what, Final) ELSE what)
           /\ session_reply_fd' = IF last THEN NoFd ELSE session_reply_fd

Spurious == UNCHANGED <<session_reply_fd, session_pending_replies, answers>>

\* Mutant: the flag stays, so that the client is counted again when it leaves.
Answered_Pending(s) == session_reply_pending

Answered(s) == session_reply_pending \ {s}

\* jack_do_session_reply
SessionReplies(s) ==
    /\ s \in owing
    /\ owing' = owing \ {s}
    /\ session_reply_pending' = Answered(s)
    /\ IF session_reply_fd = NoFd THEN Spurious ELSE OneLess(<<s>>)
    /\ UNCHANGED <<removed, calling, overlap, notifies>>

\* jack_remove_client counts down whatever session_reply_fd is.
Removal(s) ==
    IF s \notin session_reply_pending THEN Spurious
    ELSE IF session_reply_fd # NoFd THEN OneLess(<<>>)
    ELSE /\ session_pending_replies' = session_pending_replies - 1
         /\ UNCHANGED <<session_reply_fd, answers>>

SaverIsRemoved(s) ==
    /\ s \notin removed
    /\ removed' = removed \cup {s}
    /\ owing' = owing \ {s}
    /\ session_reply_pending' = session_reply_pending \ {s}
    /\ Removal(s)
    /\ UNCHANGED <<calling, overlap, notifies>>

\* jack_session_notify reads until the empty UUID.
Returns(m) ==
    /\ m \in calling
    /\ \E i \in DOMAIN answers[m] :
         /\ answers[m][i] = Final
         /\ answers' = [answers EXCEPT ![m] = SubSeq(@, i + 1, Len(@))]
    /\ calling' = calling \ {m}
    /\ UNCHANGED <<session_reply_fd, session_pending_replies, session_reply_pending,
                   owing, removed, overlap, notifies>>

SessionNext ==
    \/ \E m \in Managers : Notifies(m) \/ Returns(m)
    \/ \E s \in Savers : SessionReplies(s) \/ SaverIsRemoved(s)

\* A client answers in the end, and the manager reads.
SessionFairness ==
    /\ \A s \in Savers : WF_sessionVars(SessionReplies(s))
    /\ \A m \in Managers : WF_sessionVars(Returns(m))

SessionSpec == SessionInit /\ [][SessionNext]_sessionVars /\ SessionFairness

------------------------------------------------------------------------------
\* The server's fields and the sockets are well formed.
SessionTypeOK ==
    /\ session_reply_fd \in Managers \cup {NoFd}
    /\ session_pending_replies \in Int
    /\ session_reply_pending \cup owing \cup removed \subseteq Savers
    /\ calling \subseteq Managers
    /\ answers \in [Managers -> Seq(Savers \cup {Final})]

\* The count in the engine and the flags of the clients, kept apart by the
\* notification, the replies and the removals, agree while calls do not overlap,
\* and an open call waits for somebody.
RepliesAreCounted ==
    ~overlap =>
        /\ session_pending_replies = Cardinality(session_reply_pending)
        /\ session_reply_fd # NoFd => session_pending_replies > 0

\* A manager is told of each client at most once and reads nothing after the end
\* of its call, which the next call would take for its own.
AnswersEndTheCall ==
    ~overlap => \A m \in Managers :
        /\ \A i, j \in DOMAIN answers[m] : answers[m][i] = answers[m][j] => i = j
        /\ m \notin calling => answers[m] = <<>>
        /\ Final \in ToSet(answers[m]) => Last(answers[m]) = Final

\* jack_session_notify returns once the clients have answered or are gone.
NotifierIsAnswered == \A m \in Managers : m \in calling ~> m \notin calling \/ overlap

\* The session is kept: as many replies are counted as clients owe one, and a
\* manager hears of each client once and nothing after the end.
SessionInv ==
    /\ SessionTypeOK
    /\ RepliesAreCounted
    /\ AnswersEndTheCall
==============================================================================
