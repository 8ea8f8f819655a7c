---------------------------- MODULE ChatHistory ----------------------------
(***************************************************************************)
(* The chat page of gui/app.py and the history file that all browser tabs  *)
(* of the GUI share.  Every tab is a thread of one process; a save reads   *)
(* the file, truncates it and writes it again, and nothing is locked.  The *)
(* file outlives the process.  Answers' texts and badges are left out.     *)
(***************************************************************************)
EXTENDS Naturals, Sequences, SequencesExt

CONSTANTS
  Tabs, Sessions,
  MAX_HISTORY_ENTRIES,
  MaxAsked,     \* bound: questions asked in all tabs together
  MaxFaults,    \* bound: crashes and failed writes
  Absent, Empty, Torn   \* no file yet, one of no bytes, one that does not parse

ASSUME HistoryAssumption ==
  /\ MAX_HISTORY_ENTRIES \in Nat \ {0}
  /\ MaxAsked \in Nat /\ MaxFaults \in Nat

VARIABLES
  file,     \* CHAT_HISTORY_FILE
  shown,    \* st.session_state.messages of every tab
  session,  \* st.session_state.session_id
  pc,       \* where the tab's script is
  draft,    \* the history it is going to write
  asked,    \* number of questions so far
  dropped,  \* history: questions whose run was broken off before the answer
  stale,    \* history: tabs between read and write, whose file has changed since
  faults

vars == <<file, shown, session, pc, draft, asked, dropped, stale, faults>>

Message == [role : {"user", "assistant"}, of : 1..MaxAsked, session_id : Sessions]
Readable == file \notin {Empty, Torn}
Saving == {"reading", "read", "truncated"}

TypeOK ==
  /\ file \in {Absent, Empty, Torn} \/ file \in Seq(Message)
  /\ Readable /\ file # Absent => Len(file) <= MAX_HISTORY_ENTRIES
  /\ shown \in [Tabs -> Seq(Message)]
  /\ session \in [Tabs -> Sessions]
  /\ pc \in [Tabs -> {"idle", "asking"} \cup Saving]
  /\ draft \in [Tabs -> Seq(Message)]
  /\ asked \in 0..MaxAsked /\ dropped \subseteq 1..asked
  /\ stale \subseteq Tabs /\ faults \in 0..MaxFaults

Latest(s) == SubSeq(s, IF Len(s) > MAX_HISTORY_ENTRIES
                         THEN Len(s) - MAX_HISTORY_ENTRIES + 1 ELSE 1, Len(s))

(* SelectSeq, as a function that can be reasoned about.                    *)
Kept(s, ids) ==
  LET kept[n \in 0..Len(s)] ==
        IF n = 0 THEN <<>>
        ELSE IF s[n].session_id \in ids THEN Append(kept[n - 1], s[n]) ELSE kept[n - 1]
  IN  kept[Len(s)]

OfSession(s, id) == Kept(s, {id})
OfOthers(s, id) == Kept(s, Sessions \ {id})

(* What cannot be read is shown as no history.                             *)
_load_chat_history == IF Readable /\ file # Absent THEN Latest(file) ELSE <<>>
_get_sessions == {_load_chat_history[i].session_id : i \in DOMAIN _load_chat_history}

Init ==
  /\ file = Absent
  /\ session \in [Tabs -> Sessions]
  /\ shown = [t \in Tabs |-> <<>>] /\ draft = shown
  /\ pc = [t \in Tabs |-> "idle"]
  /\ asked = 0 /\ dropped = {} /\ stale = {} /\ faults = 0
-----------------------------------------------------------------------------
Unsaved == <<file, draft, stale>>
LatestQuestion(t) == shown[t][Len(shown[t])].of
Counted == <<asked, dropped, faults>>

(* Widgets of a tab.  One that is used while the script waits for the agent*)
(* or begins to save breaks its run off at the next call of Streamlit, of  *)
(* which there is none once the save has filtered what it read.            *)
Interact(t) ==
  /\ pc[t] \in {"idle", "asking", "reading"}
  /\ pc' = [pc EXCEPT ![t] = "idle"]
  /\ dropped' = IF pc[t] = "asking" THEN dropped \cup {LatestQuestion(t)}
                ELSE dropped

Use(t) == Interact(t) /\ UNCHANGED <<Unsaved, asked, faults>>

(* The page in a new tab, or again: messages are set by default only then. *)
Open(t, s) ==
  /\ Use(t)
  /\ session' = [session EXCEPT ![t] = s]
  /\ shown' = [shown EXCEPT ![t] = OfSession(_load_chat_history, s)]

(* The text field.  The messages stay.                                     *)
ChangeSession(t, s) ==
  /\ session[t] # s
  /\ Use(t)
  /\ session' = [session EXCEPT ![t] = s]
  /\ UNCHANGED shown

LoadSession(t, s) ==
  /\ s \in _get_sessions
  /\ Open(t, s)

ClearChat(t) ==
  /\ shown[t] # <<>>
  /\ Use(t)
  /\ shown' = [shown EXCEPT ![t] = <<>>]
  /\ UNCHANGED session
-----------------------------------------------------------------------------
(* A prompt or a quick action.                                             *)
Ask(t) ==
  /\ pc[t] = "idle" /\ asked < MaxAsked
  /\ asked' = asked + 1
  /\ shown' = [shown EXCEPT ![t] = Append(@,
       [role |-> "user", of |-> asked + 1, session_id |-> session[t]])]
  /\ pc' = [pc EXCEPT ![t] = "asking"]
  /\ UNCHANGED <<Unsaved, session, dropped, faults>>

(* ask_agent: an answer, an error or, after 300 s, a time-out.             *)
Reply(t) ==
  /\ pc[t] = "asking"
  /\ shown' = [shown EXCEPT ![t] = Append(@,
       [@[Len(@)] EXCEPT !.role = "assistant", !.session_id = session[t]])]
  /\ pc' = [pc EXCEPT ![t] = "reading"]
  /\ UNCHANGED <<Unsaved, Counted, session>>

NewHistoryFromFront(existing, t) ==   \* mutant: [:MAX_HISTORY_ENTRIES]
  SubSeq(existing \o shown[t], 1,
         IF Len(existing \o shown[t]) > MAX_HISTORY_ENTRIES THEN MAX_HISTORY_ENTRIES
         ELSE Len(existing \o shown[t]))

NewHistoryUnlimited(existing, t) ==   \* mutant: the limit is for loading only
  OfOthers(existing, session[t]) \o shown[t]

NewHistoryOfTab(existing, t) ==   \* mutant: the others are taken for duplicates
  Latest(shown[t])

NewHistoryFiltered(existing, t) ==   \* mutant: only what is of the session is new
  Latest(OfOthers(existing, session[t])
           \o OfSession(shown[t], session[t]))

(* The other sessions' messages, and after them all the tab shows.         *)
NewHistory(existing, t) ==
  Latest(OfOthers(existing, session[t]) \o shown[t])

Existing == IF file = Absent THEN <<>> ELSE file
Move(t, from, to) == pc[t] = from /\ pc' = [pc EXCEPT ![t] = to]
Keep == UNCHANGED <<shown, session, asked, dropped>>

ReadFileRepairing(t) ==   \* mutant: an unreadable file is an empty history
  /\ Move(t, "reading", "read")
  /\ draft' = [draft EXCEPT ![t] = NewHistory(_load_chat_history, t)]
  /\ stale' = stale \ {t}
  /\ Keep /\ UNCHANGED <<file, faults>>

ReadFileWaiting(t) ==   \* mutant: until it can be read
  /\ Readable
  /\ Move(t, "reading", "read")
  /\ draft' = [draft EXCEPT ![t] = NewHistory(Existing, t)]
  /\ stale' = stale \ {t}
  /\ Keep /\ UNCHANGED <<file, faults>>

(* json.load of a file that does not parse ends the save.                  *)
ReadFile(t) ==
  /\ \/ /\ ~Readable
        /\ Move(t, "reading", "idle")
        /\ UNCHANGED <<draft, stale>>
     \/ /\ Readable
        /\ Move(t, "reading", "read")
        /\ draft' = [draft EXCEPT ![t] = NewHistory(Existing, t)]
        /\ stale' = stale \ {t}
  /\ Keep /\ UNCHANGED <<file, faults>>

(* open(..., "w"), and json.dump with the close that flushes it.  The file *)
(* of another writer is overwritten from its start; if it is the longer,   *)
(* its end stays behind and nothing parses.                                *)
Others(t) == {u \in Tabs \ {t} : pc[u] \in {"read", "truncated"}}

Done(t) == Move(t, "truncated", "idle") /\ draft' = [draft EXCEPT ![t] = <<>>]

Truncate(t) ==
  /\ Move(t, "read", "truncated")
  /\ file' = Empty
  /\ stale' = stale \cup Others(t)
  /\ Keep /\ UNCHANGED <<draft, faults>>

Write(t) ==
  /\ Done(t)
  /\ file' \in IF file = Empty THEN {draft[t]} ELSE {draft[t], Torn}
  /\ stale' = stale \cup Others(t)
  /\ Keep /\ UNCHANGED faults

(* The disk is full: the file stays empty, or part of it is written.       *)
WriteFails(t) ==
  /\ faults < MaxFaults /\ faults' = faults + 1
  /\ Done(t)
  /\ file' \in IF file = Empty THEN {Empty, Torn} ELSE {file, Torn}
  /\ stale' = stale \cup Others(t)
  /\ Keep

(* The container is restarted; the browsers reconnect to new sessions.     *)
Restart ==
  /\ faults < MaxFaults /\ faults' = faults + 1
  /\ pc' = [t \in Tabs |-> "idle"]
  /\ shown' = [t \in Tabs |-> OfSession(_load_chat_history, session[t])]
  /\ dropped' = dropped \cup {LatestQuestion(t) : t \in {u \in Tabs : pc[u] = "asking"}}
  /\ draft' = [t \in Tabs |-> <<>>] /\ stale' = {}
  /\ UNCHANGED <<file, session, asked>>

Next ==
  \/ \E t \in Tabs :
       \/ Ask(t) \/ Reply(t) \/ ClearChat(t)
       \/ \E s \in Sessions : Open(t, s) \/ ChangeSession(t, s) \/ LoadSession(t, s)
       \/ ReadFile(t) \/ Truncate(t) \/ Write(t) \/ WriteFails(t)
  \/ Restart

Spec == Init /\ [][Next]_vars

(* A request of the GUI is given up after 300 s and file operations end.   *)
FairSpec ==
  Spec /\ \A t \in Tabs : /\ WF_vars(Reply(t)) /\ WF_vars(ReadFile(t))
                          /\ WF_vars(Truncate(t)) /\ WF_vars(Write(t))
-----------------------------------------------------------------------------
History == IF Readable /\ file # Absent THEN ToSet(file) ELSE {}
Answer(m) == [m EXCEPT !.role = "assistant"]

(* However saves, sessions and restarts interleave, an exchange is in the  *)
(* history as a whole: right after a question comes its answer, unless it  *)
(* never got one (_save_chat_history cuts at a boundary of a save).        *)
ExchangesStayWhole ==
  Readable /\ file # Absent =>
    \A i \in DOMAIN file :
      file[i].role = "user" /\ file[i].of \notin dropped
        => i < Len(file) /\ file[i + 1] = Answer(file[i])

(* A save that is finished and can be read back makes up for those that    *)
(* were given up: all that the tab shows is in it, up to the limit.        *)
SavesCatchUp ==
  [][\A t \in Tabs :
       pc[t] = "truncated" /\ pc'[t] = "idle" /\ file' \notin {Absent, Empty, Torn}
         => \/ \A i \in DOMAIN shown[t] : shown[t][i] \in History'
            \/ Len(file') = MAX_HISTORY_ENTRIES
            \/ faults' # faults]_vars

(* The lost update is the only loss: a save whose file nobody has touched  *)
(* since it was read drops no message of another session below the limit.  *)
OthersSurvive ==
  [][\A t \in Tabs :
       pc[t] = "read" /\ pc'[t] = "truncated" /\ t \notin stale
         => \A m \in History :
              \/ m.session_id = session[t]
              \/ m \in ToSet(draft[t])
              \/ Len(draft[t]) = MAX_HISTORY_ENTRIES]_vars

(* A file that does not parse is not written again, unless somebody else's *)
(* writing has broken it since this save read it: what is left of the      *)
(* history can be rescued by hand, and until then no chat is saved.        *)
UnreadableIsSpared ==
  [][\A t \in Tabs :
       pc[t] = "read" /\ pc'[t] = "truncated" /\ ~Readable => t \in stale]_vars

(* Every question comes to an end, in an answer, its save or a failure.    *)
SavesEnd == \A t \in Tabs : pc[t] # "idle" ~> pc[t] = "idle"
=============================================================================
