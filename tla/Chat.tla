-------------------------------- MODULE Chat --------------------------------
(***************************************************************************)
(* The conversation between a driver and the office.                       *)
(*                                                                         *)
(* The portal of the driver asks every five seconds for the messages after *)
(* the highest id it has shown; the desk of the office reads all of them.  *)
(* A message gets its id when it is inserted and is seen when it is        *)
(* committed, so two messages may become visible in the other order.       *)
(***************************************************************************)
EXTENDS Naturals

CONSTANTS
  MaxMessage         (* Bound: the ids that are drawn.                     *)

ASSUME ChatAssumption == MaxMessage \in Nat

Messages == 1..MaxMessage

VARIABLES
  message,           (* ChatMessage rows, committed or not.                *)
  chatLastId,        (* The highest id the portal has shown.               *)
  shown,             (* What the portal shows.                             *)
  answer,            (* The answer on its way to the portal.               *)
  outrun             (* History: messages committed after a later one had  *)
                     (* been shown.                                        *)

chatVars == <<message, chatLastId, shown, answer, outrun>>

-----------------------------------------------------------------------------

NoAnswer == [since |-> 0, found |-> {}, waits |-> FALSE]

ChatTypeOK ==
  /\ message \in [Messages -> [state : {"none", "inserted", "stored", "lost"},
                               sender : {"driver", "admin"}, read : BOOLEAN]]
  /\ chatLastId \in Nat
  /\ shown \subseteq Messages
  /\ answer \in [since : Nat, found : SUBSET Messages, waits : BOOLEAN]
  /\ outrun \subseteq Messages

Stored == {m \in Messages : message[m].state = "stored"}

Highest(S) == CHOOSE m \in S : \A n \in S : n <= m

Marked(S, sender) ==
  [m \in Messages |-> IF m \in S /\ message[m].sender = sender
                        THEN [message[m] EXCEPT !.read = TRUE] ELSE message[m]]

(* The sequence gives the ids in order, whatever is committed first. *)
InsertMessage(m, sender) ==
  /\ message[m].state = "none" /\ \A n \in Messages : n < m => message[n].state # "none"
  /\ message' = [message EXCEPT ![m] = [state |-> "inserted", sender |-> sender, read |-> FALSE]]
  /\ UNCHANGED <<chatLastId, shown, answer, outrun>>

CommitMessage(m) ==
  /\ message[m].state = "inserted"
  /\ message' = [message EXCEPT ![m].state = "stored"]
  /\ outrun' = IF chatLastId > m \/ (\E n \in answer.found : n > m)
               THEN outrun \cup {m} ELSE outrun
  /\ UNCHANGED <<chatLastId, shown, answer>>

FailMessage(m) ==
  /\ message[m].state = "inserted"
  /\ message' = [message EXCEPT ![m].state = "lost"]
  /\ UNCHANGED <<chatLastId, shown, answer, outrun>>

(* Mutant: only what was not read is sent. *)
UnreadAfter(since) == {m \in Stored : m > since /\ ~message[m].read}

(* get_driver_direct_chat *)
After(since) == {m \in Stored : m > since}

(* The messages of the office are marked as read, then the answer is sent. *)
AskMessages ==
  /\ ~answer.waits
  /\ answer' = [since |-> chatLastId, found |-> After(chatLastId), waits |-> TRUE]
  /\ message' = Marked(After(chatLastId), "admin")
  /\ UNCHANGED <<chatLastId, shown, outrun>>

UpTo(found) == IF found = {} THEN chatLastId ELSE Highest(found \cup {chatLastId})

ReceiveMessages ==
  /\ answer.waits
  /\ shown' = shown \cup answer.found
  /\ chatLastId' = UpTo(answer.found)
  /\ answer' = NoAnswer
  /\ UNCHANGED <<message, outrun>>

LoseAnswer ==
  /\ answer.waits /\ answer' = NoAnswer
  /\ UNCHANGED <<message, chatLastId, shown, outrun>>

(* The page of the chat is opened again and starts from the beginning. *)
ReopenChat ==
  /\ ~answer.waits /\ chatLastId > 0
  /\ chatLastId' = 0 /\ shown' = {} /\ outrun' = {}
  /\ UNCHANGED <<message, answer>>

(* get_admin_direct_chat: the desk asks for all messages and may mark them.*)
ReadAtDesk ==
  /\ message' = Marked(Stored, "driver")
  /\ UNCHANGED <<chatLastId, shown, answer, outrun>>

-----------------------------------------------------------------------------

ChatInit ==
  /\ message = [m \in Messages |-> [state |-> "none", sender |-> "admin", read |-> FALSE]]
  /\ chatLastId = 0 /\ shown = {} /\ answer = NoAnswer /\ outrun = {}

ChatNext ==
  \/ \E m \in Messages :
       \/ \E sender \in {"driver", "admin"} : InsertMessage(m, sender)
       \/ CommitMessage(m) \/ FailMessage(m)
  \/ AskMessages \/ ReceiveMessages \/ LoseAnswer \/ ReopenChat \/ ReadAtDesk

ChatSpec == ChatInit /\ [][ChatNext]_chatVars

(* The interval of the portal asks again whatever became of the answer, and*)
(* a network that is up delivers one at last.                              *)
ChatFairness == WF_chatVars(AskMessages) /\ SF_chatVars(ReceiveMessages)

ChatFairSpec == ChatSpec /\ ChatFairness

-----------------------------------------------------------------------------

(* A message that is marked as read before its answer is lost is sent      *)
(* again, and none is skipped: every stored message is shown at last,      *)
(* unless it was committed after a later one had been shown.  The rows and *)
(* the page keep their types.                                              *)
MessagesAreShown ==
  /\ []ChatTypeOK
  /\ \A m \in Messages :
       (message[m].state = "stored") ~> (m \in shown \/ m \in outrun)

=============================================================================
