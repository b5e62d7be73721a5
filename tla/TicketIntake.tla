----------------------------- MODULE TicketIntake -----------------------------
(***************************************************************************)
(* What the intake of one company promises, without processes, locks,      *)
(* queues or failures: every message is kept once, in one conversation,    *)
(* and a conversation becomes at most one ticket of the main application,  *)
(* which is about its opening message and says which channel that came by. *)
(* Somebody who asks by hand may get others: at most one for each message, *)
(* and each calls its message an e-mail.                                   *)
(***************************************************************************)
CONSTANTS
    Message,
    ChannelOf  \* [Message -> Channel], the channel a message comes by

VARIABLES
    thread,   \* the messages of a conversation
    opening,  \* the message that opened it
    ticket,   \* the channel, the conversation and the message of every ticket
    asked     \* conversations somebody has asked for a ticket of

vars == <<thread, opening, ticket, asked>>

Init ==
    /\ thread = [c \in {} |-> {}] /\ opening = [c \in {} |-> {}]
    /\ ticket = {} /\ asked = {}

Kept == UNION {thread[c] : c \in DOMAIN thread}

\* A message opens a conversation, or joins one.
Open(c, m) ==
    /\ c \notin DOMAIN thread /\ m \notin Kept
    /\ thread' = [d \in DOMAIN thread \cup {c} |-> IF d = c THEN {m} ELSE thread[d]]
    /\ opening' = [d \in DOMAIN thread \cup {c} |-> IF d = c THEN m ELSE opening[d]]
    /\ UNCHANGED <<ticket, asked>>

Join(c, m) ==
    /\ c \in DOMAIN thread /\ m \notin Kept
    /\ thread' = [thread EXCEPT ![c] = @ \cup {m}]
    /\ UNCHANGED <<opening, ticket, asked>>

Ticket(channel, c, m) ==
    ticket' = ticket \cup {<<channel, c, m>>} /\ UNCHANGED <<thread, opening, asked>>

TicketOpening(c) == c \in DOMAIN thread /\ Ticket(ChannelOf[opening[c]], c, opening[c])

\* By hand, a ticket is about whichever message of the conversation is the newest.
Ask(c) ==
    /\ c \in DOMAIN thread
    /\ asked' = asked \cup {c}
    /\ UNCHANGED <<thread, opening, ticket>>

TicketAsked(c) == c \in asked /\ \E m \in thread[c] : Ticket("email", c, m)

\* Any value may name a new conversation; it is the one that is there afterwards.
Keep == \E c \in DOMAIN thread', m \in Message : Open(c, m) \/ Join(c, m)

Serve == \E c \in DOMAIN thread : TicketOpening(c) \/ Ask(c) \/ TicketAsked(c)

\* A step that changes nothing is the most frequent one, and the cheapest to recognise.
Next == UNCHANGED vars \/ Keep \/ Serve

Spec == Init /\ [][Next]_vars

===============================================================================
