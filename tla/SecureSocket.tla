---------------------------- MODULE SecureSocket -----------------------------
(* SocketSecurityContext: the verification of messages by the tasks that share   *)
(* one context, and its sessions. Every end makes a context, and so keys, of its *)
(* own: a message is verified only by the context that made it. Below, and apart  *)
(* from that: messages on one stream of a SecureSocketConnection, a length and    *)
(* then that many bytes each. Either end may be given up between its two halves;  *)
(* a length above the limit is refused and nothing else is read.                  *)
EXTENDS Naturals, Sequences, SequencesExt, FiniteSets

CONSTANTS
  SecureMessages,   \* messages the two ends make
  Verifiers,        \* tasks verifying
  SecureSessions,   \* session ids
  SessionRate,      \* rate_limit
  MaxFrames         \* bound on the messages sent over the stream

ASSUME SocketAssumption == SessionRate \in Nat /\ MaxFrames \in Nat

VARIABLES
  made,       \* which context made a message, and whether it is too old by now
  history,    \* message_history
  verify,     \* what each task does
  accepted,   \* verifications of a message that succeeded
  overlapped, \* messages two tasks verified at once
  sessions,   \* client_sessions
  granted     \* updates of a session that succeeded

VARIABLES     \* of the stream
  stream,       \* what is on its way: lengths and bodies
  sent,         \* messages sent, by number, and whether each is above the limit
  sending,      \* the message whose length is out and body is not, or 0
  reading,      \* the receiver has read a length: of which message, or 0
  got,          \* messages received
  slips         \* what set lengths and bodies apart: "sender", "receiver", "limit"

SessionVars == <<made, history, verify, accepted, overlapped, sessions, granted>>

Contexts == {"server", "client"}
Unmade == [by |-> "none", old |-> FALSE]
NoSession == [is |-> FALSE]
NotVerifying == [at |-> "idle"]

SessionInit ==
  /\ made = [m \in SecureMessages |-> Unmade]
  /\ history = {} /\ overlapped = {}
  /\ verify = [t \in Verifiers |-> NotVerifying]
  /\ accepted = [m \in SecureMessages |-> 0]
  /\ sessions = [s \in SecureSessions |-> NoSession]
  /\ granted = [s \in SecureSessions |-> 0]

-----------------------------------------------------------------------------
(* Messages, as the server's context sees them                               *)

MakeMessage(m, c) ==
  /\ made[m] = Unmade
  /\ made' = [made EXCEPT ![m].by = c]
  /\ UNCHANGED <<history, verify, accepted, overlapped, sessions, granted>>

MessageAges(m) ==
  /\ made[m] # Unmade /\ ~made[m].old
  /\ made' = [made EXCEPT ![m].old = TRUE]
  /\ UNCHANGED <<history, verify, accepted, overlapped, sessions, granted>>

\* verify_and_decrypt_message: the age and the code, then the history, which is
\* read under one guard and added to under the next.
BeginVerify(t, m) ==
  /\ verify[t] = NotVerifying /\ made[m] # Unmade
  /\ IF made[m].old \/ made[m].by # "server"
     THEN UNCHANGED <<verify, overlapped>>
     ELSE /\ verify' = [verify EXCEPT ![t] = [at |-> "look", msg |-> m]]
          /\ overlapped' = IF \E u \in Verifiers : verify[u].at # "idle" /\ verify[u].msg = m
                           THEN overlapped \cup {m} ELSE overlapped
  /\ UNCHANGED <<made, history, accepted, sessions, granted>>

LookInHistory(t) ==
  /\ verify[t].at = "look"
  /\ verify' = [verify EXCEPT ![t] = IF verify[t].msg \in history THEN NotVerifying
                                     ELSE [@ EXCEPT !.at = "note"]]
  /\ UNCHANGED <<made, history, accepted, overlapped, sessions, granted>>

\* Faulty: the message is decrypted and not noted.
NoteNothing(t) ==
  /\ verify[t].at = "note"
  /\ accepted' = [accepted EXCEPT ![verify[t].msg] = @ + 1]
  /\ verify' = [verify EXCEPT ![t] = NotVerifying]
  /\ UNCHANGED <<made, history, overlapped, sessions, granted>>

\* The message is noted, and decrypted with the key that encrypted it.
NoteMessage(t) ==
  /\ verify[t].at = "note"
  /\ history' = history \cup {verify[t].msg}
  /\ accepted' = [accepted EXCEPT ![verify[t].msg] = @ + 1]
  /\ verify' = [verify EXCEPT ![t] = NotVerifying]
  /\ UNCHANGED <<made, overlapped, sessions, granted>>

-----------------------------------------------------------------------------
(* Sessions                                                                  *)

CreateSession(s) ==
  /\ sessions[s] = NoSession /\ granted[s] = 0
  /\ sessions' = [sessions EXCEPT ![s] = [is |-> TRUE, auth |-> FALSE, count |-> 0,
                                          idle |-> FALSE]]
  /\ UNCHANGED <<made, history, verify, accepted, overlapped, granted>>

\* Any credentials but empty ones will do; empty ones take the flag back.
AuthenticateSession(s, credentials) ==
  /\ sessions[s].is
  /\ sessions' = [sessions EXCEPT ![s].auth = credentials]
  /\ UNCHANGED <<made, history, verify, accepted, overlapped, granted>>

\* update_session_activity counts first and refuses then, and the count only
\* grows. The count here stops at the first refusal, as all later ones do.
UpdateActivity(s) ==
  /\ sessions[s].is
  /\ LET over == sessions[s].count >= SessionRate
     IN /\ sessions' = [sessions EXCEPT ![s].idle = FALSE,
                          ![s].count = IF @ > SessionRate THEN @ ELSE @ + 1]
        /\ granted' = [granted EXCEPT ![s] = IF over THEN @ ELSE @ + 1]
  /\ UNCHANGED <<made, history, verify, accepted, overlapped>>

SessionIdles(s) ==
  /\ sessions[s].is /\ ~sessions[s].idle
  /\ sessions' = [sessions EXCEPT ![s].idle = TRUE]
  /\ UNCHANGED <<made, history, verify, accepted, overlapped, granted>>

CleanSessions ==
  /\ \E s \in SecureSessions : sessions[s].is /\ sessions[s].idle
  /\ sessions' = [s \in SecureSessions |->
                    IF sessions[s].is /\ sessions[s].idle THEN NoSession ELSE sessions[s]]
  /\ UNCHANGED <<made, history, verify, accepted, overlapped, granted>>

SessionNext ==
  \/ \E m \in SecureMessages :
       \/ \E c \in Contexts : MakeMessage(m, c)
       \/ MessageAges(m)
       \/ \E t \in Verifiers : BeginVerify(t, m)
  \/ \E t \in Verifiers : LookInHistory(t) \/ NoteMessage(t)
  \/ \E s \in SecureSessions :
       \/ CreateSession(s) \/ UpdateActivity(s) \/ SessionIdles(s)
       \/ \E credentials \in BOOLEAN : AuthenticateSession(s, credentials)
  \/ CleanSessions

SessionSpec == SessionInit /\ [][SessionNext]_SessionVars

-----------------------------------------------------------------------------
SessionTypeOK ==
  /\ history \subseteq SecureMessages /\ overlapped \subseteq SecureMessages
  /\ \A t \in Verifiers : verify[t].at \in {"idle", "look", "note"}
  /\ \A s \in SecureSessions : sessions[s].is => sessions[s].count \in 0..(SessionRate + 1)

\* A context accepts a message twice only if two tasks verified it at once: the
\* history is asked and added to under two guards, but forgets nothing. It never
\* accepts what the other end's context made. A session is granted its rate once
\* in its life, whatever time passes (secure_socket.rs:267-379).
AcceptedOnce ==
  /\ \A s \in SecureSessions : granted[s] <= SessionRate
  /\ \A m \in SecureMessages :
       /\ accepted[m] > 1 => m \in overlapped
       /\ accepted[m] > 0 => made[m].by = "server" /\ m \in history

-----------------------------------------------------------------------------
(* The stream                                                                *)

FrameVars == <<stream, sent, sending, reading, got, slips>>

LengthOf(n) == [what |-> "length", of |-> n]
Body(n) == [what |-> "body", of |-> n]
Garbled == 0        \* a message put together from the wrong bytes

FrameInit ==
  /\ stream = <<>> /\ sent = <<>> /\ sending = 0 /\ reading = 0
  /\ got = <<>> /\ slips = {}

\* send_message and send_secure_message write any length.
SendLength(large) ==
  /\ sending = 0 /\ Len(sent) < MaxFrames
  /\ sent' = Append(sent, large)
  /\ sending' = Len(sent')
  /\ stream' = Append(stream, LengthOf(Len(sent')))
  /\ UNCHANGED <<reading, got, slips>>

SendBody ==
  /\ sending # 0
  /\ stream' = Append(stream, Body(sending))
  /\ sending' = 0
  /\ UNCHANGED <<sent, reading, got, slips>>

\* The caller of a send gives up after the first write.
SendAbandoned ==
  /\ sending # 0
  /\ sending' = 0 /\ slips' = slips \cup {"sender"}
  /\ UNCHANGED <<stream, sent, reading, got>>

\* The next four bytes are taken for a length, wherever they come from.
ReceiveLength ==
  /\ reading = 0 /\ stream # <<>>
  /\ IF Head(stream).what = "length"
     THEN /\ stream' = Tail(stream)
          /\ IF sent[Head(stream).of]
             THEN slips' = slips \cup {"limit"} /\ UNCHANGED reading
             ELSE reading' = Head(stream).of /\ UNCHANGED slips
          /\ UNCHANGED got
     ELSE \* four bytes of a body: a refusal, or a message of whatever follows
          /\ \/ UNCHANGED <<stream, got>>
             \/ stream' = Tail(stream) /\ got' = Append(got, Garbled)
          /\ UNCHANGED <<reading, slips>>
  /\ UNCHANGED <<sent, sending>>

\* read_exact takes that many bytes: the body, or what else is there.
ReceiveBody ==
  /\ reading # 0 /\ stream # <<>>
  /\ got' = Append(got, IF Head(stream) = Body(reading) THEN reading ELSE Garbled)
  /\ stream' = Tail(stream)
  /\ reading' = 0
  /\ UNCHANGED <<sent, sending, slips>>

ReceiveAbandoned ==
  /\ reading # 0
  /\ reading' = 0 /\ slips' = slips \cup {"receiver"}
  /\ UNCHANGED <<stream, sent, sending, got>>

FrameNext ==
  \/ \E large \in BOOLEAN : SendLength(large)
  \/ SendBody
  \/ SendAbandoned
  \/ ReceiveLength
  \/ ReceiveBody
  \/ ReceiveAbandoned

FrameSpec == FrameInit /\ [][FrameNext]_FrameVars

-----------------------------------------------------------------------------
FrameTypeOK ==
  /\ Len(sent) <= MaxFrames /\ sent \in Seq(BOOLEAN)
  /\ sending \in 0..Len(sent) /\ reading \in 0..Len(sent)
  /\ slips \subseteq {"sender", "receiver", "limit"}

\* Without a slip what is received is what was sent, in order, and nothing is
\* missing but what is on its way. A refusal for length is a slip like a caller
\* that gives up: the body stays in the stream, and whatever is sent later over
\* this connection is read from the middle (secure_socket.rs:591-640, 746-796).
FramesStandApart ==
  slips = {} =>
    /\ got = [i \in 1..Len(got) |-> i]
    /\ {n \in 1..Len(sent) : Body(n) \in ToSet(stream)}
         = ((Len(got) + 1)..Len(sent)) \ {sending}

\* A message is taken once from a context's own, and as it was sent.
SocketStands == AcceptedOnce /\ FramesStandApart
=============================================================================
