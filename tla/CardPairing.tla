---------------------------- MODULE CardPairing ----------------------------
(***************************************************************************)
(* The virtual card reader (src/taiko_card.c) and the thread that pairs    *)
(* the cabinet with a player's card over the network                       *)
(* (src/taiko_pairing.c).  While the game polls an empty reader the thread *)
(* asks the server, which answers with a code to show or, when a player    *)
(* has typed it and chosen a card, with a command to put the card on the   *)
(* reader.  Requests and answers may be lost.                              *)
(***************************************************************************)
EXTENDS Naturals

CONSTANTS
  PollGap,     \* seconds between polls after which the scene has moved on; 2 in the code
  CardHold,    \* CARD_HOLD_SECONDS
  MaxCommands, \* bound: cards chosen by players
  MaxLosses    \* bound: requests and answers lost

Commands == 1 .. MaxCommands

VARIABLES
  reader,    \* card_present, the command that put it there, and whether a poll
             \* has been answered with it (history)
  heldFor,   \* seconds since presented_seconds
  sincePoll, \* seconds since last_poll_seconds; Never before the first poll
  pairing,   \* g_session, g_ack, g_last_command
  asking,    \* where the pairing thread is, and the answer it got
  server,    \* the server: whether it has a session, the command not acknowledged
  presented, \* history: times a command put a card on the reader
  losses,    \* requests and answers lost so far
  closeLost  \* history: a request that closes a session was lost

cpVars == <<reader, heldFor, sincePoll, pairing, asking, server, presented, losses, closeLost>>
readerVars == <<reader, heldFor, sincePoll, presented>>
netVars == <<losses, closeLost>>

Never == PollGap + 2
NoCard == [present |-> FALSE, command |-> 0, seen |-> FALSE]
NoPairing == [session |-> FALSE, ack |-> 0, last |-> 0]
Resting == [at |-> "rest", answer |-> "none", command |-> 0]

CpInit ==
  /\ reader = NoCard /\ heldFor = 0 /\ sincePoll = Never
  /\ pairing = NoPairing /\ asking = Resting
  /\ server = [session |-> FALSE, claim |-> 0]
  /\ presented = [c \in Commands |-> 0]
  /\ losses = 0 /\ closeLost = FALSE

-----------------------------------------------------------------------------
(* taiko_card.c *)

\* A second passes.
Second ==
  /\ heldFor' = IF heldFor <= CardHold THEN heldFor + 1 ELSE heldFor
  /\ sincePoll' = IF sincePoll <= PollGap THEN sincePoll + 1 ELSE sincePoll
  /\ UNCHANGED <<reader, pairing, asking, server, presented, netVars>>

\* The game polls (taiko_card_process, 4Ah): a card that was held long enough
\* or met a gap in the polling is gone.
PollReader ==
  /\ reader' = IF heldFor > CardHold \/ sincePoll = PollGap + 1 THEN NoCard
               ELSE [reader EXCEPT !.seen = reader.present]
  /\ sincePoll' = 0
  /\ UNCHANGED <<heldFor, pairing, asking, server, presented, netVars>>

\* taiko_card_reader_active
ReaderActive == sincePoll <= PollGap

\* taiko_card_present, for a code that can be encoded; BUSY changes nothing.
PresentCard(c) ==
  IF reader.present THEN UNCHANGED readerVars
  ELSE /\ reader' = [present |-> TRUE, command |-> c, seen |-> FALSE]
       /\ heldFor' = 0
       /\ presented' = [presented EXCEPT ![c] = @ + 1]
       /\ UNCHANGED sincePoll

-----------------------------------------------------------------------------
(* The server *)

\* Whoever types the code of the session picks a card for it.
Claim(c) ==
  /\ server.session /\ server.claim = 0
  /\ presented[c] = 0 /\ \A b \in 1 .. c - 1 : presented[b] > 0
  /\ server' = [server EXCEPT !.claim = c]
  /\ UNCHANGED <<readerVars, pairing, asking, netVars>>

\* A session that nobody uses is closed; a card that was chosen stays chosen.
SessionExpires ==
  /\ server.session
  /\ server' = [server EXCEPT !.session = FALSE]
  /\ UNCHANGED <<readerVars, pairing, asking, netVars>>

\* What it still has to hand out when an acknowledgement has come.
Unacknowledged == IF server.claim = pairing.ack THEN 0 ELSE server.claim

Lose == losses < MaxLosses /\ losses' = losses + 1

-----------------------------------------------------------------------------
(* pairing_thread *)

\* It asks only while the game polls the reader; the second question takes the
\* lock again.
LookAtReader ==
  /\ asking.at = "rest"
  /\ asking' = [asking EXCEPT !.at = IF ReaderActive THEN "active"
                                     ELSE IF pairing.session THEN "close" ELSE "rest"]
  /\ UNCHANGED <<readerVars, pairing, server, netVars>>

LookForCard ==
  /\ asking.at = "active"
  /\ asking' = [asking EXCEPT !.at = IF ~reader.present THEN "ask"
                                     ELSE IF pairing.session THEN "close" ELSE "rest"]
  /\ UNCHANGED <<readerVars, pairing, server, netVars>>

\* pairing_request(1): the server opens a session where there is none, unless
\* the request names one that is over.  It may have made its answer before it
\* took the acknowledgement, and hand out once more what is acknowledged.
Ask(late) ==
  LET over == pairing.session /\ ~server.session
      claim == IF late THEN server.claim ELSE Unacknowledged
  IN
  /\ asking.at = "ask"
  /\ server' = [session |-> ~over, claim |-> Unacknowledged]
  /\ asking' = [at |-> "answered",
                answer |-> IF over THEN "closed" ELSE IF claim # 0 THEN "claimed" ELSE "active",
                command |-> claim]
  /\ UNCHANGED <<readerVars, pairing, netVars>>

\* The request does not arrive.
AskLost ==
  /\ asking.at = "ask" /\ Lose
  /\ asking' = Resting
  /\ UNCHANGED <<readerVars, pairing, server, closeLost>>

\* The answer does not.
AnswerLost ==
  /\ asking.at = "answered" /\ Lose
  /\ asking' = Resting
  /\ UNCHANGED <<readerVars, pairing, server, closeLost>>

\* A command is carried out whenever it comes.
MutIsNew(c) == TRUE

\* Not the command that was carried out last.
IsNew(c) == c # pairing.last

\* apply
Apply ==
  /\ asking.at = "answered"
  /\ asking' = Resting
  /\ IF asking.answer = "closed" THEN pairing' = NoPairing /\ UNCHANGED readerVars
     ELSE IF asking.answer = "claimed" /\ IsNew(asking.command)
       THEN /\ PresentCard(asking.command)
            /\ pairing' = [session |-> TRUE, ack |-> asking.command, last |-> asking.command]
       ELSE pairing' = [pairing EXCEPT !.session = TRUE] /\ UNCHANGED readerVars
  /\ UNCHANGED <<server, netVars>>

\* pairing_request(0), whose result is not looked at: session, acknowledgement
\* and last command are forgotten.
CloseSession(lost) ==
  /\ asking.at = "close"
  /\ IF lost THEN Lose /\ closeLost' = TRUE /\ UNCHANGED server
     ELSE /\ server' = [session |-> FALSE, claim |-> Unacknowledged]
          /\ UNCHANGED netVars
  /\ pairing' = NoPairing
  /\ asking' = Resting
  /\ UNCHANGED readerVars

-----------------------------------------------------------------------------
CpNext ==
  \/ Second \/ PollReader
  \/ \E c \in Commands : Claim(c)
  \/ SessionExpires
  \/ LookAtReader \/ LookForCard
  \/ AskLost \/ AnswerLost \/ Apply
  \/ \E late \in BOOLEAN : Ask(late)
  \/ \E lost \in BOOLEAN : CloseSession(lost)

CpSpec == CpInit /\ [][CpNext]_cpVars

-----------------------------------------------------------------------------
(* Properties *)

CpTypeOK ==
  /\ {reader.present, reader.seen} \subseteq BOOLEAN /\ reader.command \in Commands \cup {0}
  /\ heldFor \in 0 .. CardHold + 1 /\ sincePoll \in 0 .. Never
  /\ {pairing.ack, pairing.last, asking.command, server.claim} \subseteq Commands \cup {0}
  /\ asking.at \in {"rest", "active", "ask", "answered", "close"}

\* A card that a player chose once is put on the reader once, whichever
\* requests for commands and answers are lost and repeated ("acknowledge it so
\* the server does not hand it out again", taiko_pairing.c:157-158), unless
\* a request that closes a session is lost.
EachCardOnce == ~closeLost => \A c \in Commands : presented[c] <= 1

\* The same whatever is lost.  The acknowledgement of a card goes out with the
\* request that closes the session, and is forgotten whether or not it arrived.
EachCardOnceAlways == \A c \in Commands : presented[c] <= 1

\* "The card leaves the field once the game has had its look"
\* (taiko_card.c:556-557).  It does not hold: a card that is put on the reader
\* after a pause of the game's polling goes at the first poll that could see it.
CardIsSeen == [][reader.present /\ ~reader'.present => reader.seen]_cpVars
=============================================================================
