------------------------ MODULE ActionJournal_proofs ------------------------
(***************************************************************************)
(* The proofs about ActionJournal: an inductive invariant, that it implies *)
(* HalfDoneIsSuperseded, and that the module implements ExactlyOnce.       *)
(***************************************************************************)
EXTENDS ActionJournal, TLAPS

\* What an error that is not final does keeps the types.
LEMMA InternalErrorTypes == ASSUME TypeOK, InternalError PROVE TypeOK'
<1>1. busy' \in BOOLEAN
  BY Zenon DEF InternalError, TypeOK
<1>2. proc' \in {"down", "replay", "up"} /\ handler' \in {"off", "marked", "resolve"}
  BY DEF InternalError, TypeOK
<1>3. UNCHANGED <<journal, version, receipts, phase, done, intent, wrote, mail, reply>>
  BY DEF InternalError, runState
<1>4. /\ call' \in [pc : CallPoints, req : RunActionRequest \cup {NoRequest},
                    out : Answers \cup {"none"}]
      /\ call'.pc = "idle"
  BY DEF InternalError, Idle, CallPoints
<1> QED BY <1>1, <1>2, <1>3, <1>4 DEF TypeOK

-----------------------------------------------------------------------------
\* A step keeps the types: an answered record has an answer, and a call has its request.
LEMMA TypeStep == ASSUME JournalInv, [Next]_vars PROVE TypeOK'
<1> USE JournalAssumption, NoEntryAssumption, NoRequestAssumption
    DEF runState, mailbox, vars, TypeOK, RunActionRequest,
        ApplicationJournalRecord, Answers, CallPoints, JournalInv
<1>1. ASSUME NEW r \in RunActionRequest, RunAction(r) PROVE TypeOK'
  BY <1>1 DEF RunAction, Pending
<1>2. CASE BeginApplicationJournal
  BY <1>2 DEF BeginApplicationJournal, Goto
<1>3. CASE MarkApplicationJournalMutated
  BY <1>3 DEF MarkApplicationJournalMutated, Ends, CallInv
<1>4. CASE CommitApplicationJournal
  BY <1>4 DEF CommitApplicationJournal, Idle, CallInv
<1>5. CASE ResumeConflict
  BY <1>5, InternalErrorTypes DEF ResumeConflict
<1>6. CASE Resume
  BY <1>6 DEF Resume, Resuming, Goto, Ends
<1>7. CASE ApplyBegins
  BY <1>7 DEF ApplyBegins, Goto, Ends
<1>8. CASE ApplyNode
  BY <1>8 DEF ApplyNode, Goto
<1>9. CASE finalizeAction
  BY <1>9 DEF finalizeAction, recordActionReceipt, Goto
<1>10. CASE IoError
  BY <1>10, InternalErrorTypes DEF IoError
<1>11. CASE RemoveActionIntent
  BY <1>11 DEF RemoveActionIntent, Ends
<1>12. CASE AbortActionIntent
  BY <1>12 DEF AbortActionIntent, Ends
<1>13. CASE IntentFileFails
  BY <1>13 DEF IntentFileFails, Resuming, Ends
<1>14. CASE CancelBegins
  BY <1>14 DEF CancelBegins, Ends, Goto, NoReply
<1>15. CASE CancelReads
  <2>1. CASE InternalError
    BY <2>1, InternalErrorTypes
  <2>2. CASE UNCHANGED <<journal, runState, intent, wrote, mailbox, busy, proc>>
    <3>1. busy' \in BOOLEAN
      BY <2>2, Zenon
    <3>2. UNCHANGED <<journal, version, receipts, phase, done, intent, wrote, mail, reply,
                      handler, proc>>
      BY <2>2
    <3>3. CASE Ends("mark", "applied") \/ Ends("mark", "moot") \/ Ends("abort", "error")
      <4>1. /\ call' \in [pc : CallPoints, req : RunActionRequest \cup {NoRequest},
                            out : Answers \cup {"none"}]
            /\ call'.pc # "idle" => call'.req # NoRequest
        BY <3>3, <1>15 DEF CancelReads, Ends
      <4> QED BY <3>1, <3>2, <4>1
    <3>4. CASE InternalError
      BY <3>4, InternalErrorTypes
    <3> QED BY <3>3, <3>4, <1>15 DEF CancelReads
  <2> QED BY <2>1, <2>2, <1>15 DEF CancelReads
<1>16. CASE CancelPolls
  BY <1>16 DEF CancelPolls, Goto
<1>17. CASE CancelFindsNothing
  BY <1>17 DEF CancelFindsNothing, Ends
<1>18. CASE CancelMark
  BY <1>18 DEF CancelMark, recordActionReceipt
<1>19. CASE CancelEnds
  BY <1>19 DEF CancelEnds
<1>20. CASE ResolveCancellation
  <2>1. busy' \in BOOLEAN
    BY <1>20, Zenon DEF ResolveCancellation
  <2> QED BY <2>1, <1>20 DEF ResolveCancellation, Goto, MailInv
<1>21. CASE ControllerWrites
  BY <1>21 DEF ControllerWrites
<1>22. CASE ControllerEnds
  <2>1. busy' \in BOOLEAN
    BY <1>22, Zenon DEF ControllerEnds
  <2> QED BY <2>1, <1>22 DEF ControllerEnds
<1>23. CASE Crash
  BY <1>23 DEF Crash, Idle
<1>24. CASE Restart
  BY <1>24 DEF Restart
<1>25. CASE Recover
  <2>1. busy' \in BOOLEAN
    BY <1>25, Zenon DEF Recover
  <2> QED BY <2>1, <1>25 DEF Recover, Pending
<1>26. CASE UNCHANGED vars
  BY <1>26
<1> QED BY <1>1, <1>2, <1>3, <1>4, <1>5, <1>6, <1>7, <1>8, <1>9, <1>10, <1>11,
             <1>12, <1>13, <1>14, <1>15, <1>16, <1>17, <1>18, <1>19, <1>20, <1>21, <1>22,
             <1>23, <1>24, <1>25, <1>26 DEF Next

\* A step keeps journal, receipts and effects together.  The only steps that can
\* break this are the two that record an action, finalizeAction and CancelMark.
LEMMA LedgerStep == ASSUME JournalInv, [Next]_vars PROVE Ledger'
<1> USE JournalAssumption, NoEntryAssumption, NoRequestAssumption
    DEF runState, mailbox, vars, TypeOK, RunActionRequest,
        ApplicationJournalRecord, Answers, CallPoints, JournalInv, Ledger,
        CallInv, MailInv, Settled, EO!Truthful
<1>1. ASSUME NEW r \in RunActionRequest, RunAction(r) PROVE Ledger'
  BY <1>1 DEF RunAction, Pending
<1>2. CASE BeginApplicationJournal
  BY <1>2 DEF BeginApplicationJournal, Goto
<1>3. CASE MarkApplicationJournalMutated
  BY <1>3, SMTT(20) DEF MarkApplicationJournalMutated, Ends
<1>4. CASE CommitApplicationJournal
  BY <1>4, SMTT(20) DEF CommitApplicationJournal, Idle
<1>5. CASE ResumeConflict
  BY <1>5 DEF ResumeConflict, Resuming, InternalError, Idle
<1>6. CASE Resume
  BY <1>6 DEF Resume, Resuming, Goto, Ends
<1>7. CASE ApplyBegins
  BY <1>7 DEF ApplyBegins, Goto, Ends
<1>8. CASE ApplyNode
  BY <1>8 DEF ApplyNode, Goto
<1>9. CASE finalizeAction
  BY <1>9 DEF finalizeAction, recordActionReceipt, Goto
<1>10. CASE IoError
  BY <1>10 DEF IoError, InternalError, Idle
<1>11. CASE RemoveActionIntent
  BY <1>11 DEF RemoveActionIntent, Ends
<1>12. CASE AbortActionIntent
  BY <1>12 DEF AbortActionIntent, Ends
<1>13. CASE IntentFileFails
  BY <1>13 DEF IntentFileFails, Resuming, Ends
<1>14. CASE CancelBegins
  BY <1>14 DEF CancelBegins, Ends, Goto, NoReply
<1>15. CASE CancelReads
  BY <1>15 DEF CancelReads, Ends, InternalError, Idle
<1>16. CASE CancelPolls
  BY <1>16 DEF CancelPolls, Goto
<1>17. CASE CancelFindsNothing
  BY <1>17 DEF CancelFindsNothing, Ends
<1>18. CASE CancelMark
  BY <1>18 DEF CancelMark, recordActionReceipt
<1>19. CASE CancelEnds
  BY <1>19 DEF CancelEnds
<1>20. CASE ResolveCancellation
  BY <1>20 DEF ResolveCancellation, Goto
<1>21. CASE ControllerWrites
  BY <1>21 DEF ControllerWrites
<1>22. CASE ControllerEnds
  BY <1>22 DEF ControllerEnds
<1>23. CASE Crash
  BY <1>23 DEF Crash, Idle
<1>24. CASE Restart
  BY <1>24 DEF Restart
<1>25. CASE Recover
  BY <1>25 DEF Recover, Pending
<1>26. CASE UNCHANGED vars
  BY <1>26
<1> QED BY <1>1, <1>2, <1>3, <1>4, <1>5, <1>6, <1>7, <1>8, <1>9, <1>10, <1>11,
             <1>12, <1>13, <1>14, <1>15, <1>16, <1>17, <1>18, <1>19, <1>20, <1>21, <1>22,
             <1>23, <1>24, <1>25, <1>26 DEF Next

\* A step keeps what the call knows: no other step touches its record, and no
\* controller writes the Run while the call has the lease.
LEMMA CallStep == ASSUME JournalInv, [Next]_vars PROVE CallInv'
<1> USE JournalAssumption, NoEntryAssumption, NoRequestAssumption
    DEF runState, mailbox, vars, TypeOK, RunActionRequest,
        ApplicationJournalRecord, Answers, CallPoints, JournalInv, Ledger,
        CallInv, MailInv, HalfInv, Settled, EO!Truthful
<1>1. ASSUME NEW r \in RunActionRequest, RunAction(r) PROVE CallInv'
  BY <1>1 DEF RunAction, Pending
<1>2. CASE BeginApplicationJournal
  BY <1>2 DEF BeginApplicationJournal, Goto
<1>3. CASE MarkApplicationJournalMutated
  BY <1>3 DEF MarkApplicationJournalMutated, Ends
<1>4. CASE CommitApplicationJournal
  BY <1>4 DEF CommitApplicationJournal, Idle
<1>5. CASE ResumeConflict
  BY <1>5 DEF ResumeConflict, Resuming, InternalError, Idle
<1>6. CASE Resume
  BY <1>6 DEF Resume, Resuming, Goto, Ends
<1>7. CASE ApplyBegins
  BY <1>7 DEF ApplyBegins, Goto, Ends
<1>8. CASE ApplyNode
  BY <1>8 DEF ApplyNode, Goto
<1>9. CASE finalizeAction
  BY <1>9 DEF finalizeAction, recordActionReceipt, Goto
<1>10. CASE IoError
  BY <1>10 DEF IoError, InternalError, Idle
<1>11. CASE RemoveActionIntent
  BY <1>11 DEF RemoveActionIntent, Ends
<1>12. CASE AbortActionIntent
  BY <1>12 DEF AbortActionIntent, Ends
<1>13. CASE IntentFileFails
  BY <1>13 DEF IntentFileFails, Resuming, Ends
<1>14. CASE CancelBegins
  BY <1>14 DEF CancelBegins, Ends, Goto, NoReply
<1>15. CASE CancelReads
  BY <1>15 DEF CancelReads, Ends, InternalError, Idle
<1>16. CASE CancelPolls
  BY <1>16 DEF CancelPolls, Goto
<1>17. CASE CancelFindsNothing
  BY <1>17 DEF CancelFindsNothing, Ends
<1>18. CASE CancelMark
  BY <1>18 DEF CancelMark, recordActionReceipt
<1>19. CASE CancelEnds
  BY <1>19 DEF CancelEnds
<1>20. CASE ResolveCancellation
  BY <1>20 DEF ResolveCancellation, Goto
<1>21. CASE ControllerWrites
  BY <1>21 DEF ControllerWrites
<1>22. CASE ControllerEnds
  BY <1>22 DEF ControllerEnds
<1>23. CASE Crash
  BY <1>23 DEF Crash, Idle
<1>24. CASE Restart
  BY <1>24 DEF Restart
<1>25. CASE Recover
  BY <1>25 DEF Recover, Pending
<1>26. CASE UNCHANGED vars
  BY <1>26
<1> QED BY <1>1, <1>2, <1>3, <1>4, <1>5, <1>6, <1>7, <1>8, <1>9, <1>10, <1>11,
             <1>12, <1>13, <1>14, <1>15, <1>16, <1>17, <1>18, <1>19, <1>20, <1>21, <1>22,
             <1>23, <1>24, <1>25, <1>26 DEF Next

\* A step keeps the facts about the mailbox: a request is settled when its call
\* stops waiting, and whenever a controller starts.
LEMMA MailStep == ASSUME JournalInv, [Next]_vars PROVE MailInv'
<1> USE JournalAssumption, NoEntryAssumption, NoRequestAssumption
    DEF runState, mailbox, vars, TypeOK, RunActionRequest,
        ApplicationJournalRecord, Answers, CallPoints, JournalInv, Ledger,
        CallInv, MailInv, Settled, EO!Truthful
<1>1. ASSUME NEW r \in RunActionRequest, RunAction(r) PROVE MailInv'
  BY <1>1 DEF RunAction, Pending
<1>2. CASE BeginApplicationJournal
  BY <1>2 DEF BeginApplicationJournal, Goto
<1>3. CASE MarkApplicationJournalMutated
  BY <1>3 DEF MarkApplicationJournalMutated, Ends
<1>4. CASE CommitApplicationJournal
  BY <1>4 DEF CommitApplicationJournal, Idle
<1>5. CASE ResumeConflict
  BY <1>5 DEF ResumeConflict, Resuming, InternalError, Idle
<1>6. CASE Resume
  BY <1>6 DEF Resume, Resuming, Goto, Ends
<1>7. CASE ApplyBegins
  BY <1>7 DEF ApplyBegins, Goto, Ends
<1>8. CASE ApplyNode
  BY <1>8 DEF ApplyNode, Goto
<1>9. CASE finalizeAction
  BY <1>9 DEF finalizeAction, recordActionReceipt, Goto
<1>10. CASE IoError
  BY <1>10 DEF IoError, InternalError, Idle
<1>11. CASE RemoveActionIntent
  BY <1>11 DEF RemoveActionIntent, Ends
<1>12. CASE AbortActionIntent
  BY <1>12 DEF AbortActionIntent, Ends
<1>13. CASE IntentFileFails
  BY <1>13 DEF IntentFileFails, Resuming, Ends
<1>14. CASE CancelBegins
  BY <1>14 DEF CancelBegins, Ends, Goto, NoReply
<1>15. CASE CancelReads
  BY <1>15 DEF CancelReads, Ends, InternalError, Idle
<1>16. CASE CancelPolls
  BY <1>16 DEF CancelPolls, Goto
<1>17. CASE CancelFindsNothing
  BY <1>17 DEF CancelFindsNothing, Ends
<1>18. CASE CancelMark
  BY <1>18 DEF CancelMark, recordActionReceipt
<1>19. CASE CancelEnds
  BY <1>19 DEF CancelEnds
<1>20. CASE ResolveCancellation
  BY <1>20 DEF ResolveCancellation, Goto
<1>21. CASE ControllerWrites
  BY <1>21 DEF ControllerWrites
<1>22. CASE ControllerEnds
  BY <1>22 DEF ControllerEnds
<1>23. CASE Crash
  BY <1>23 DEF Crash, Idle
<1>24. CASE Restart
  BY <1>24 DEF Restart
<1>25. CASE Recover
  BY <1>25 DEF Recover, Pending
<1>26. CASE UNCHANGED vars
  BY <1>26
<1> QED BY <1>1, <1>2, <1>3, <1>4, <1>5, <1>6, <1>7, <1>8, <1>9, <1>10, <1>11,
             <1>12, <1>13, <1>14, <1>15, <1>16, <1>17, <1>18, <1>19, <1>20, <1>21, <1>22,
             <1>23, <1>24, <1>25, <1>26 DEF Next

\* A step keeps the facts about half-done actions: the version moves past an
\* action with node writes only when another action or a cancellation of the same
\* version moves it.
LEMMA HalfStep == ASSUME JournalInv, [Next]_vars PROVE HalfInv'
<1> USE JournalAssumption, NoEntryAssumption, NoRequestAssumption
    DEF runState, mailbox, vars, TypeOK, RunActionRequest,
        ApplicationJournalRecord, Answers, CallPoints, JournalInv, Ledger,
        CallInv, MailInv, HalfInv, Settled, EO!Truthful, Superseded
<1>1. ASSUME NEW r \in RunActionRequest, RunAction(r) PROVE HalfInv'
  BY <1>1 DEF RunAction, Pending
<1>2. CASE BeginApplicationJournal
  BY <1>2 DEF BeginApplicationJournal, Goto
<1>3. CASE MarkApplicationJournalMutated
  BY <1>3 DEF MarkApplicationJournalMutated, Ends
<1>4. CASE CommitApplicationJournal
  <2>1. ASSUME NEW i \in Id
        PROVE  /\ journal'[i] # NoEntry <=> journal[i] # NoEntry
               /\ journal'[i].req = journal[i].req /\ journal'[i].resp = journal[i].resp
               /\ journal'[i].state = "intent" <=> journal[i].state = "intent"
    BY <1>4 DEF CommitApplicationJournal, Idle
  <2>2. HalfInv /\ UNCHANGED <<version, intent, wrote, done, busy>>
    BY <1>4 DEF CommitApplicationJournal, Idle
  <2> HIDE DEF TypeOK, Ledger, CallInv, MailInv, JournalInv
  <2> QED BY <2>1, <2>2
<1>5. CASE ResumeConflict
  BY <1>5 DEF ResumeConflict, Resuming, InternalError, Idle
<1>6. CASE Resume
  BY <1>6 DEF Resume, Resuming, Goto, Ends
<1>7. CASE ApplyBegins
  BY <1>7 DEF ApplyBegins, Goto, Ends
<1>8. CASE ApplyNode
  BY <1>8 DEF ApplyNode, Goto
<1>9. CASE finalizeAction
  <2> SUFFICES ASSUME NEW i \in Id, journal'[i] # NoEntry, done'[i] = 0, wrote'[i] > 0,
                      version' > journal'[i].req.ver, journal'[i].resp # "bad_payload"
               PROVE  Superseded(i)'
    BY <1>9 DEF finalizeAction, recordActionReceipt, Goto
  <2>1. CASE version > journal[i].req.ver
    BY <2>1, <1>9 DEF finalizeAction, recordActionReceipt, Goto
  <2>2. CASE version = journal[i].req.ver
    <3>1. journal[i].state = "intent" /\ ~busy
      BY <2>2, <1>9 DEF finalizeAction, recordActionReceipt, Goto
    <3>2. call.req.id # i /\ call.req.id \in Id
      BY <1>9 DEF finalizeAction, recordActionReceipt, Goto
    <3>3. journal[call.req.id] # NoEntry /\ journal[call.req.id].req = call.req
            /\ call.req.ver = version /\ done'[call.req.id] = 1
      BY <3>2, <1>9 DEF finalizeAction, recordActionReceipt, Goto
    <3> QED BY <2>2, <3>2, <3>3, <1>9 DEF finalizeAction, Superseded
  <2>3. version \in Nat /\ journal[i].req.ver \in Nat /\ journal[i].req.ver <= version
    BY <1>9 DEF finalizeAction, recordActionReceipt, Goto
  <2> HIDE DEF JournalInv, Superseded
  <2> QED BY <2>1, <2>2, <2>3
<1>10. CASE IoError
  BY <1>10 DEF IoError, InternalError, Idle
<1>11. CASE RemoveActionIntent
  BY <1>11 DEF RemoveActionIntent, Ends
<1>12. CASE AbortActionIntent
  BY <1>12 DEF AbortActionIntent, Ends
<1>13. CASE IntentFileFails
  BY <1>13 DEF IntentFileFails, Resuming, Ends
<1>14. CASE CancelBegins
  BY <1>14 DEF CancelBegins, Ends, Goto, NoReply
<1>15. CASE CancelReads
  BY <1>15 DEF CancelReads, Ends, InternalError, Idle
<1>16. CASE CancelPolls
  BY <1>16 DEF CancelPolls, Goto
<1>17. CASE CancelFindsNothing
  BY <1>17 DEF CancelFindsNothing, Ends
<1>18. CASE CancelMark
  <2> SUFFICES ASSUME NEW i \in Id, journal'[i] # NoEntry, done'[i] = 0, wrote'[i] > 0,
                      version' > journal'[i].req.ver, journal'[i].resp # "bad_payload"
               PROVE  Superseded(i)'
    BY <1>18 DEF CancelMark, recordActionReceipt
  <2>1. CASE version > journal[i].req.ver
    BY <2>1, <1>18 DEF CancelMark, recordActionReceipt
  <2>2. CASE version = journal[i].req.ver
    <3>1. journal[i].state = "intent" /\ ~busy
      BY <2>2, <1>18 DEF CancelMark, recordActionReceipt
    <3>2. mail.id # i /\ mail.id \in Id /\ journal[mail.id] # NoEntry
            /\ journal[mail.id].req = mail /\ mail.kind = "cancel"
      BY <1>18 DEF CancelMark, recordActionReceipt
    <3>3. mail.ver = version
      BY <2>2, <1>18 DEF CancelMark, recordActionReceipt
    <3> QED BY <2>2, <3>2, <3>3, <1>18 DEF CancelMark, Superseded
  <2>3. version \in Nat /\ journal[i].req.ver \in Nat /\ journal[i].req.ver <= version
    BY <1>18 DEF CancelMark, recordActionReceipt
  <2> HIDE DEF JournalInv, Superseded
  <2> QED BY <2>1, <2>2, <2>3
<1>19. CASE CancelEnds
  <2> SUFFICES ASSUME NEW i \in Id, journal'[i] # NoEntry, done'[i] = 0, wrote'[i] > 0,
                      version' > journal'[i].req.ver, journal'[i].resp # "bad_payload"
               PROVE  Superseded(i)'
    BY <1>19 DEF CancelEnds
  <2>1. CASE version > journal[i].req.ver
    BY <2>1, <1>19 DEF CancelEnds
  <2>2. CASE version = journal[i].req.ver
    <3>1. journal[i].state = "intent" /\ ~busy
      BY <2>2, <1>19 DEF CancelEnds
    <3>2. call.pc = "try" /\ mail = call.req /\ mail.id # i /\ mail.id \in Id
      BY <3>1, <1>19 DEF CancelEnds
    <3>3. journal[mail.id] # NoEntry /\ journal[mail.id].req = mail /\ mail.kind = "cancel"
      BY <3>2, <1>19 DEF CancelEnds
    <3>4. mail.ver = journal[i].req.ver
      BY <2>2, <3>2, <3>3, <1>19 DEF CancelEnds
    <3> QED BY <3>2, <3>3, <3>4, <1>19 DEF CancelEnds, Superseded
  <2>3. version \in Nat /\ journal[i].req.ver \in Nat /\ journal[i].req.ver <= version
    BY <1>19 DEF CancelEnds
  <2> HIDE DEF JournalInv, Superseded
  <2> QED BY <2>1, <2>2, <2>3
<1>20. CASE ResolveCancellation
  BY <1>20 DEF ResolveCancellation, Goto
<1>21. CASE ControllerWrites
  <2> SUFFICES ASSUME NEW i \in Id, journal'[i] # NoEntry, done'[i] = 0, wrote'[i] > 0,
                      version' > journal'[i].req.ver, journal'[i].resp # "bad_payload"
               PROVE  Superseded(i)'
    BY <1>21 DEF ControllerWrites
  <2>1. CASE version > journal[i].req.ver
    BY <2>1, <1>21 DEF ControllerWrites
  <2>2. CASE version = journal[i].req.ver
    <3>1. journal[i].state = "intent" /\ ~busy
      BY <2>2, <1>21 DEF ControllerWrites
    <3> QED BY <3>1, <1>21 DEF ControllerWrites
  <2>3. version \in Nat /\ journal[i].req.ver \in Nat /\ journal[i].req.ver <= version
    BY <1>21 DEF ControllerWrites
  <2> HIDE DEF JournalInv, Superseded
  <2> QED BY <2>1, <2>2, <2>3
<1>22. CASE ControllerEnds
  BY <1>22 DEF ControllerEnds
<1>23. CASE Crash
  BY <1>23 DEF Crash, Idle
<1>24. CASE Restart
  BY <1>24 DEF Restart
<1>25. CASE Recover
  BY <1>25 DEF Recover, Pending
<1>26. CASE UNCHANGED vars
  BY <1>26
<1> QED BY <1>1, <1>2, <1>3, <1>4, <1>5, <1>6, <1>7, <1>8, <1>9, <1>10, <1>11,
             <1>12, <1>13, <1>14, <1>15, <1>16, <1>17, <1>18, <1>19, <1>20, <1>21, <1>22,
             <1>23, <1>24, <1>25, <1>26 DEF Next

\* JournalInv is inductive.
LEMMA JournalInvStep == JournalInv /\ [Next]_vars => JournalInv'
BY TypeStep, LedgerStep, CallStep, MailStep, HalfStep DEF JournalInv

\* The journal, the Run, the mailbox and the call stay consistent through every
\* step, crash and replay of the application service.
THEOREM JournalInvariant == Spec => []JournalInv
<1>1. Init => JournalInv
  BY JournalAssumption, NoEntryAssumption, NoRequestAssumption
     DEF Init, JournalInv, TypeOK, Ledger, CallInv, MailInv, HalfInv, Settled, Idle,
         NoReply, CallPoints, Answers
<1> QED BY <1>1, JournalInvStep, PTL DEF Spec

\* Every variable keeps its type; in particular only marked records have an answer.
THEOREM TypeCorrect == Spec => []TypeOK
<1>1. JournalInv => TypeOK
  BY DEF JournalInv
<1> QED BY <1>1, JournalInvariant, PTL

\* An action that RunAction answers without having applied it, and whose nodes
\* applyActionIntent had begun to write, keeps its intent and was superseded.
THEOREM HalfDoneCorrect == Spec => []HalfDoneIsSuperseded
<1>1. JournalInv => HalfDoneIsSuperseded
  <2> SUFFICES ASSUME JournalInv, NEW i \in Id,
                      answer[i] \in {"moot", "error"}, wrote[i] > 0
               PROVE  intent[i] = "applying" /\ Superseded(i)
    BY DEF HalfDoneIsSuperseded, Superseded
  <2>1. journal[i] # NoEntry /\ journal[i].resp \in {"moot", "error"}
    BY DEF answer
  <2>2. journal[i].state # "intent" /\ done[i] = 0
    BY <2>1 DEF JournalInv, TypeOK, ApplicationJournalRecord, Ledger, EO!Truthful
  <2> QED BY <2>1, <2>2 DEF JournalInv, HalfInv
<1> QED BY <1>1, JournalInvariant, PTL

-----------------------------------------------------------------------------
\* A step that changes neither the effects nor the responses of the records is
\* none of ExactlyOnce.
LEMMA AnswerKept == UNCHANGED <<done, journal>> => UNCHANGED <<done, answer>>
BY DEF answer

\* recordActionReceipt for a record that waits for its response is an effect.
LEMMA RecordIsEffect ==
    ASSUME NEW i \in Id, TypeOK, journal' = journal, journal[i] # NoEntry,
           journal[i].state = "intent", done[i] = 0,
           done' = [done EXCEPT ![i] = @ + 1]
    PROVE  EO!Next
<1>1. answer[i] = "none"
  BY DEF TypeOK, ApplicationJournalRecord, answer
<1>2. answer' = answer
  BY DEF answer
<1>3. done' = [done EXCEPT ![i] = 1]
  BY DEF TypeOK
<1> QED BY <1>1, <1>2, <1>3 DEF EO!Next, EO!Effect

\* Every step of the application service and of the Run service is an effect or
\* an answer of the action, or is not seen by the callers.
LEMMA OnceStep == ASSUME JournalInv, [Next]_vars PROVE [EO!Next]_<<done, answer>>
<1> DEFINE Kept == UNCHANGED <<done, journal>>
<1>1. CASE BeginApplicationJournal
  <2>1. done' = done
    BY <1>1 DEF BeginApplicationJournal, runState
  <2>2. ASSUME NEW i \in Id PROVE answer'[i] = answer[i]
    BY <1>1 DEF BeginApplicationJournal, answer, JournalInv, CallInv, TypeOK,
                RunActionRequest
  <2> QED BY <2>1, <2>2 DEF answer
<1>2. CASE MarkApplicationJournalMutated
  <2> DEFINE i == call.req.id
  <2>1. i \in Id /\ journal[i] # NoEntry /\ journal[i].state = "intent"
    BY <1>2 DEF MarkApplicationJournalMutated, JournalInv, TypeOK, CallInv, RunActionRequest
  <2>2. call.out \in Answers /\ EO!Truthful(done[i], call.out)
    BY <1>2 DEF MarkApplicationJournalMutated, JournalInv, CallInv
  <2>3. answer[i] = "none"
    BY <2>1 DEF answer, JournalInv, TypeOK, ApplicationJournalRecord
  <2>4. answer' = [answer EXCEPT ![i] = call.out]
    <3> DEFINE rec == [req |-> journal[i].req, state |-> "mutated", resp |-> call.out]
    <3>1. rec # NoEntry /\ rec.resp = call.out
      BY <2>1, <2>2, NoEntryAssumption
         DEF JournalInv, TypeOK, ApplicationJournalRecord, Answers
    <3>2. /\ journal' = [journal EXCEPT ![i] = rec]
          /\ journal \in [Id -> ApplicationJournalRecord \cup {NoEntry}]
      BY <1>2 DEF MarkApplicationJournalMutated, JournalInv, TypeOK
    <3> HIDE DEF rec
    <3>3. ASSUME NEW j \in Id
          PROVE  answer'[j] = IF j = i THEN call.out ELSE answer[j]
      BY <2>1, <3>1, <3>2 DEF answer
    <3> HIDE DEF i
    <3> QED BY <3>3 DEF answer
  <2>5. done' = done
    BY <1>2 DEF MarkApplicationJournalMutated, runState
  <2> QED BY <2>1, <2>2, <2>3, <2>4, <2>5 DEF EO!Next, EO!Answer, Answers, EO!Answers
<1>3. CASE CommitApplicationJournal
  <2>1. done' = done
    BY <1>3 DEF CommitApplicationJournal, runState
  <2>2. ASSUME NEW i \in Id PROVE answer'[i] = answer[i]
    BY <1>3, NoEntryAssumption
       DEF CommitApplicationJournal, answer, JournalInv, CallInv, TypeOK,
           RunActionRequest, ApplicationJournalRecord, Answers
  <2> QED BY <2>1, <2>2 DEF answer
<1>4. CASE finalizeAction
  BY <1>4, RecordIsEffect
     DEF finalizeAction, recordActionReceipt, JournalInv, TypeOK, CallInv, RunActionRequest
<1>5. CASE CancelMark
  <2>1. CASE UNCHANGED runState
    BY <2>1, <1>5, AnswerKept DEF CancelMark, runState
  <2>2. CASE version = mail.ver /\ phase = "open" /\ recordActionReceipt(mail)
    <3>1. mail.id \in Id /\ journal[mail.id] # NoEntry /\ journal[mail.id].req = mail
      BY <1>5, <2>2 DEF CancelMark, JournalInv, TypeOK, MailInv, RunActionRequest
    <3>2. journal[mail.id].state = "intent" /\ done[mail.id] = 0
      BY <1>5, <2>2, <3>1
         DEF CancelMark, JournalInv, TypeOK, Ledger, MailInv, Settled, RunActionRequest
    <3> QED BY <1>5, <2>2, <3>1, <3>2, RecordIsEffect
            DEF CancelMark, recordActionReceipt, JournalInv
  <2> QED BY <1>5, <2>1, <2>2 DEF CancelMark
<1>6. ASSUME NEW r \in RunActionRequest, RunAction(r) PROVE Kept
  BY <1>6 DEF RunAction, runState
<1>7. CASE ResumeConflict \/ Resume \/ ApplyBegins \/ ApplyNode
  BY <1>7, AnswerKept
     DEF ResumeConflict, Resume, ApplyBegins, ApplyNode, InternalError, runState
<1>8. CASE IoError \/ RemoveActionIntent \/ AbortActionIntent \/ IntentFileFails
  BY <1>8, AnswerKept
     DEF IoError, RemoveActionIntent, AbortActionIntent, IntentFileFails, InternalError,
         runState
<1>9. CASE \/ CancelBegins \/ CancelReads \/ CancelPolls \/ CancelFindsNothing
           \/ CancelEnds \/ ResolveCancellation
  BY <1>9, AnswerKept
     DEF CancelBegins, CancelReads, CancelPolls, CancelFindsNothing, CancelEnds,
         ResolveCancellation, InternalError, runState
<1>10. CASE ControllerWrites \/ ControllerEnds \/ Crash \/ Restart \/ Recover
  BY <1>10, AnswerKept
     DEF ControllerWrites, ControllerEnds, Crash, Restart, Recover, runState
<1>11. CASE UNCHANGED vars
  BY <1>11, AnswerKept DEF vars
<1> QED BY <1>1, <1>2, <1>3, <1>4, <1>5, <1>6, <1>7, <1>8, <1>9, <1>10, <1>11, AnswerKept
        DEF Next

\* The application service gives every action at most one effect and at most one
\* answer, which is true unless it is not_found or bad_payload, whatever crashes,
\* repetitions and races occur.
THEOREM OnceCorrect == Spec => Once
<1>1. Init => EO!Init
  BY DEF Init, EO!Init, answer
<1> QED BY <1>1, OnceStep, JournalInvariant, PTL DEF Spec, Once, EO!Spec
=============================================================================
