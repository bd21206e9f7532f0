--------------------------- MODULE CampaignProofs ---------------------------
(***************************************************************************)
(* TLAPS proofs about Campaign, for any finite number of copies, any       *)
(* mixture of decisions about them, any policy and any set of faults.      *)
(***************************************************************************)
EXTENDS Campaign, TLAPS

LEMMA InitTypeOK == Init => TypeOK
  BY DEF Init, TypeOK, AllClasses, Steps

LEMMA StepTypeOK == TypeOK /\ [Next]_vars => TypeOK'
<1> SUFFICES ASSUME TypeOK, [Next]_vars PROVE TypeOK'
  OBVIOUS
<1> USE InputAssumption DEF InputAssumption, TypeOK, AllClasses, Steps
<1>1. ASSUME NEW m \in Copy, RecordsCampaign(m) PROVE TypeOK'
  BY <1>1 DEF RecordsCampaign, Suppresses, OverThreshold, Confident, Disposition,
     Quarantining, GoesTo
<1>2. ASSUME NEW m \in Copy, LogsMail(m) PROVE TypeOK'
  BY <1>2 DEF LogsMail, GoesTo
<1>3. ASSUME NEW m \in Copy, CopiesToMailbox(m) PROVE TypeOK'
  BY <1>3 DEF CopiesToMailbox, GoesTo
<1>4. ASSUME NEW m \in Copy, StoresOriginal(m) PROVE TypeOK'
  BY <1>4 DEF StoresOriginal, KeepsOriginal, GoesTo
<1>5. ASSUME NEW m \in Copy, InsertsEntry(m) PROVE TypeOK'
  <2>1. pc' \in [Copy -> Steps]
    BY <1>5 DEF InsertsEntry, GoesTo
  <2>2. suppress' \in [Copy -> BOOLEAN] /\ entries' \subseteq Copy
    BY <1>5 DEF InsertsEntry
  <2>3. QED
    BY <1>5, <2>1, <2>2 DEF InsertsEntry
<1>6. ASSUME NEW m \in Copy, Represents(m) PROVE TypeOK'
  BY <1>6 DEF Represents, GoesTo
<1>7. ASSUME NEW m \in Copy, StoresBlob(m) PROVE TypeOK'
  BY <1>7 DEF StoresBlob, KeepsBlob, GoesTo
<1>8. ASSUME NEW m \in Copy, Replies(m) PROVE TypeOK'
  BY <1>8 DEF Replies, Tally, GoesTo
<1>9. ASSUME NEW m \in Copy, RequestDies(m) PROVE TypeOK'
  BY <1>9 DEF RequestDies, GoesTo
<1>10. ASSUME NEW m \in Copy, MtaHears(m) PROVE TypeOK'
  BY <1>10 DEF MtaHears, MilterAction
<1>11. ASSUME NEW m \in Copy, MtaTimesOut(m) PROVE TypeOK'
  BY <1>11 DEF MtaTimesOut
<1>12. ASSUME NEW m \in Copy, SettlesHold(m) PROVE TypeOK'
  BY <1>12 DEF SettlesHold
<1>13. ASSUME NEW m \in Copy, ExpiresHold(m) PROVE TypeOK'
  BY <1>13 DEF ExpiresHold
<1>14. CASE UNCHANGED vars
  BY <1>14 DEF vars
<1>15. QED
  BY <1>1, <1>2, <1>3, <1>4, <1>5, <1>6, <1>7, <1>8, <1>9, <1>10, <1>11, <1>12,
     <1>13, <1>14 DEF Next, Handle, Mta, Hold

\* Every variable of the campaign stays in its domain, for any number of copies.
THEOREM TypeCorrect == Spec => []TypeOK
  BY InitTypeOK, StepTypeOK, PTL DEF Spec
-----------------------------------------------------------------------------
(***************************************************************************)
(* One investigation.  A copy that is not suppressed got its entry past    *)
(* the unique index before it could alert anybody or queue a scan.         *)
(***************************************************************************)
Flood(m) == class[m] \in Suppressible

\* Nothing is known of a copy before it is decided; afterwards a copy of the
\* flood is quarantined unless it is suppressed.
Decided ==
    \A m \in Copy :
        /\ pc[m] = "decide" => m \notin entries \cup scanned \cup alerted
        /\ pc[m] \notin {"decide", "failed"} /\ Flood(m)
               => disp[m] = "quarantined" \/ suppress[m]

\* Alerts and scans come after the entry.
EntryComesFirst ==
    \A m \in Copy :
        /\ pc[m] \in {"represent", "blob"} \/ m \in alerted => m \in entries
        /\ Flood(m) /\ m \in scanned => m \in entries
        /\ Flood(m) /\ pc[m] = "tally" /\ ~suppress[m] => m \in entries

\* The unique index on quarantine_entries(campaign_id).
UniqueEntry == \A m, k \in entries : Flood(m) /\ Flood(k) => m = k

OneEntry == Decided /\ EntryComesFirst /\ UniqueEntry
FloodInv == TypeOK /\ OneEntry

LEMMA FloodInit == Init => FloodInv
  BY InitTypeOK DEF Init, FloodInv, OneEntry, Decided, EntryComesFirst,
     UniqueEntry, Flood

\* A copy is counted, and classified as c.
CountedAs(m, c) ==
    /\ pc[m] = "decide" /\ pc'[m] = "log"
    /\ class'[m] = c
    /\ suppress'[m] = Suppresses(c, count + 1, rep # NoCopy)
    /\ disp'[m] = IF OverThreshold(c, count + 1) /\ Action = "reject"
                   THEN "rejected" ELSE Disposition(c)
    /\ \A k \in Copy : k # m => /\ pc'[k] = pc[k] /\ class'[k] = class[k]
                                /\ suppress'[k] = suppress[k] /\ disp'[k] = disp[k]
    /\ UNCHANGED <<mta, rep, original, entries, scanned, alerted>>

LEMMA RecordsAs ==
    ASSUME TypeOK, NEW m \in Copy, RecordsCampaign(m)
    PROVE \E c \in Classes : CountedAs(m, c)
  BY DEF TypeOK, RecordsCampaign, CountedAs, GoesTo

LEMMA RecordsOne ==
    ASSUME TypeOK, OneEntry, NEW m \in Copy, RecordsCampaign(m)
    PROVE OneEntry'
<1>1. PICK c \in Classes : CountedAs(m, c)
  BY RecordsAs
<1>2. /\ pc'[m] = "log" /\ m \notin entries \cup scanned \cup alerted
      /\ UNCHANGED <<entries, scanned, alerted>>
      /\ \A k \in Copy : k # m => /\ pc'[k] = pc[k] /\ Flood(k)' = Flood(k)
                                  /\ suppress'[k] = suppress[k] /\ disp'[k] = disp[k]
  BY <1>1 DEF CountedAs, OneEntry, Decided, Flood
<1>3. Flood(m)' => disp'[m] = "quarantined" \/ suppress'[m]
  <2>1. CASE OverThreshold(c, count + 1) /\ Action = "reject"
    BY <1>1, <2>1, PolicyAssumption
       DEF CountedAs, TypeOK, PolicyAssumption, Suppresses, OverThreshold
  <2>2. CASE ~(OverThreshold(c, count + 1) /\ Action = "reject")
    BY <1>1, <2>2 DEF CountedAs, Flood, Suppressible, Disposition, Quarantining
  <2>3. QED
    BY <2>1, <2>2
<1>4. Decided'
  BY <1>2, <1>3 DEF OneEntry, Decided
<1>5. EntryComesFirst'
  BY <1>2 DEF OneEntry, EntryComesFirst
<1>6. UniqueEntry'
  BY <1>2 DEF OneEntry, UniqueEntry, TypeOK
<1>7. QED
  BY <1>4, <1>5, <1>6 DEF OneEntry

\* The original is stored.
LEMMA OriginalShape ==
    ASSUME TypeOK, NEW m \in Copy, StoresOriginal(m)
    PROVE /\ pc[m] = "original"
          /\ pc'[m] = IF disp[m] = "quarantined" /\ ~suppress[m] THEN "entry" ELSE "tally"
          /\ \A k \in Copy : k # m => pc'[k] = pc[k]
          /\ original \subseteq original' /\ (HasRaw /\ ~suppress[m] => m \in original')
          /\ UNCHANGED <<class, suppress, disp, entries, scanned, alerted, mta, rep>>
  BY DEF TypeOK, StoresOriginal, KeepsOriginal, GoesTo

LEMMA OriginalOne ==
    ASSUME TypeOK, OneEntry, NEW m \in Copy, StoresOriginal(m)
    PROVE OneEntry'
<1>1. Decided'
  BY OriginalShape DEF OneEntry, Decided, Flood
<1>2. EntryComesFirst'
  <2>1. Flood(m) /\ pc'[m] = "tally" => suppress[m]
    BY OriginalShape DEF OneEntry, Decided
  <2>2. QED
    BY <2>1, OriginalShape DEF OneEntry, EntryComesFirst, Flood
<1>3. UniqueEntry'
  BY OriginalShape DEF OneEntry, UniqueEntry, Flood
<1>4. QED
  BY <1>1, <1>2, <1>3 DEF OneEntry

\* A step that stores nothing and leads to a place before the entry is inserted,
\* or gives the request up.
LEMMA QuietOne ==
    ASSUME OneEntry, NEW m \in Copy, pc[m] \notin {"decide", "failed"} \/ pc'[m] = "failed",
           UNCHANGED <<class, suppress, disp, entries, scanned, alerted>>,
           pc'[m] \in {"mailbox", "original", "failed"},
           \A k \in Copy : k # m => pc'[k] = pc[k]
    PROVE OneEntry'
<1>1. \A k \in Copy : Flood(k)' = Flood(k)
  BY DEF Flood
<1>2. /\ class' = class /\ suppress' = suppress /\ disp' = disp
      /\ entries' = entries /\ scanned' = scanned /\ alerted' = alerted
  OBVIOUS
<1>3. Decided'
  <2>1. ASSUME NEW k \in Copy
        PROVE  /\ pc'[k] = "decide" => k \notin entries \cup scanned \cup alerted
               /\ pc'[k] \notin {"decide", "failed"} /\ Flood(k)
                      => disp[k] = "quarantined" \/ suppress[k]
    <3>1. CASE k = m
      BY <3>1 DEF OneEntry, Decided
    <3>2. CASE k # m
      BY <3>2 DEF OneEntry, Decided
    <3>3. QED
      BY <3>1, <3>2
  <2>2. QED
    BY <1>1, <1>2, <2>1 DEF Decided
<1>4. EntryComesFirst'
  <2>1. ASSUME NEW k \in Copy
        PROVE  /\ pc'[k] \in {"represent", "blob"} \/ k \in alerted => k \in entries
               /\ Flood(k) /\ k \in scanned => k \in entries
               /\ Flood(k) /\ pc'[k] = "tally" /\ ~suppress[k] => k \in entries
    <3>1. CASE k = m
      BY <3>1 DEF OneEntry, EntryComesFirst
    <3>2. CASE k # m
      BY <3>2 DEF OneEntry, EntryComesFirst
    <3>3. QED
      BY <3>1, <3>2
  <2>2. QED
    BY <1>1, <1>2, <2>1 DEF EntryComesFirst
<1>5. UniqueEntry'
  BY <1>2 DEF OneEntry, UniqueEntry, Flood
<1>6. QED
  BY <1>3, <1>4, <1>5 DEF OneEntry

LEMMA FloodStep == FloodInv /\ [Next]_vars => FloodInv'
<1> SUFFICES ASSUME FloodInv, [Next]_vars PROVE FloodInv'
  OBVIOUS
<1>1. TypeOK'
  BY StepTypeOK DEF FloodInv
<1>2. OneEntry'
  <2>1. ASSUME NEW m \in Copy, RecordsCampaign(m) PROVE OneEntry'
    BY <2>1, RecordsOne DEF FloodInv
  <2>2. ASSUME NEW m \in Copy, StoresOriginal(m) PROVE OneEntry'
    BY <2>2, OriginalOne DEF FloodInv
  <2>3. ASSUME NEW m \in Copy, LogsMail(m) \/ CopiesToMailbox(m) PROVE OneEntry'
    <3>1. /\ pc[m] \in {"log", "mailbox"} /\ pc'[m] \in {"mailbox", "original"}
          /\ \A k \in Copy : k # m => pc'[k] = pc[k]
          /\ UNCHANGED <<class, suppress, disp, entries, scanned, alerted>>
      BY <2>3 DEF FloodInv, TypeOK, LogsMail, CopiesToMailbox, GoesTo
    <3>2. QED
      BY <3>1, QuietOne DEF FloodInv
  <2>4. ASSUME NEW m \in Copy, RequestDies(m) PROVE OneEntry'
    <3>1. /\ pc'[m] = "failed" /\ \A k \in Copy : k # m => pc'[k] = pc[k]
          /\ UNCHANGED <<class, suppress, disp, entries, scanned, alerted>>
      BY <2>4 DEF FloodInv, TypeOK, RequestDies, GoesTo
    <3>2. QED
      BY <3>1, QuietOne DEF FloodInv
  <2> USE PolicyAssumption, InputAssumption
        DEF PolicyAssumption, InputAssumption, FloodInv, TypeOK, AllClasses,
            OneEntry, Decided, EntryComesFirst, UniqueEntry, Flood, Suppressible
  <2>5. ASSUME NEW m \in Copy, InsertsEntry(m) PROVE OneEntry'
    BY <2>5 DEF InsertsEntry, Conflicts, InCampaign, Confident, GoesTo
  <2>6. ASSUME NEW m \in Copy, Represents(m) PROVE OneEntry'
    BY <2>6 DEF Represents, GoesTo
  <2>7. ASSUME NEW m \in Copy, StoresBlob(m) PROVE OneEntry'
    BY <2>7 DEF StoresBlob, KeepsBlob, GoesTo
  <2>8. ASSUME NEW m \in Copy, Replies(m) PROVE OneEntry'
    BY <2>8 DEF Replies, Tally, GoesTo
  <2>9. ASSUME NEW m \in Copy, MtaHears(m) PROVE OneEntry'
    BY <2>9 DEF MtaHears, MilterAction
  <2>10. ASSUME NEW m \in Copy, MtaTimesOut(m) PROVE OneEntry'
    BY <2>10 DEF MtaTimesOut
  <2>11. ASSUME NEW m \in Copy, SettlesHold(m) PROVE OneEntry'
    BY <2>11 DEF SettlesHold
  <2>12. ASSUME NEW m \in Copy, ExpiresHold(m) PROVE OneEntry'
    BY <2>12 DEF ExpiresHold
  <2>13. CASE UNCHANGED vars
    BY <2>13 DEF vars
  <2> HIDE DEF OneEntry, Decided, EntryComesFirst, UniqueEntry, FloodInv, TypeOK
  <2>14. QED
    BY <2>1, <2>2, <2>3, <2>4, <2>5, <2>6, <2>7, <2>8, <2>9, <2>10, <2>11,
       <2>12, <2>13 DEF Next, Handle, Mta, Hold
<1>3. QED
  BY <1>1, <1>2 DEF FloodInv

\* A high-confidence campaign opens one investigation, however its copies race
\* (handle's suppressDuplicate and the unique index).
THEOREM OneInvestigationOpens == Spec => []OneInvestigation
<1>1. FloodInv => OneInvestigation
  BY DEF FloodInv, OneEntry, TypeOK, EntryComesFirst, UniqueEntry, Flood,
     OneInvestigation
<1>2. QED
  BY <1>1, FloodInit, FloodStep, PTL DEF Spec
-----------------------------------------------------------------------------
(***************************************************************************)
(* Nothing discarded is lost, unless the policy discards above the         *)
(* threshold: a suppressed copy was represented when it was suppressed.    *)
(***************************************************************************)
\* The original is stored before the entry, the entry before the reference.
OriginalComesFirst ==
    /\ \A m \in Copy : pc[m] \in {"entry", "represent", "blob"} \/ m \in entries
                            => m \in original
    /\ rep # NoCopy => rep \in entries
    /\ \A m \in Copy : pc[m] \in {"represent", "blob"} => m \in entries

\* A copy that may be discarded has an original of its own, or was suppressed
\* because the campaign has a representative.
Backed ==
    \A m \in Copy :
        /\ pc[m] \notin {"decide", "failed"} => disp[m] # "none"
        /\ disp[m] = "quarantined" /\ suppress[m] => m \in original \/ rep # NoCopy
        /\ disp[m] = "quarantined" /\ ~suppress[m] /\ pc[m] \in {"tally", "replied"}
               => m \in entries
        /\ mta[m] = "discarded" => m \in original \/ rep # NoCopy

Kept == OriginalComesFirst /\ Backed
StoreInv == TypeOK /\ Kept

LEMMA StoreInit == Init => StoreInv
  BY InitTypeOK, CopyAssumption
     DEF CopyAssumption, Init, StoreInv, Kept, OriginalComesFirst, Backed

LEMMA RecordsKept ==
    ASSUME Action # "discard", TypeOK, Kept, NEW m \in Copy, RecordsCampaign(m)
    PROVE Kept'
<1>1. PICK c \in Classes : CountedAs(m, c)
  BY RecordsAs
<1>2. disp'[m] # "none"
  BY <1>1 DEF CountedAs, Disposition
<1>3. disp'[m] = "quarantined" /\ suppress'[m] => rep # NoCopy
  <2>1. disp'[m] = "quarantined" => ~(OverThreshold(c, count + 1) /\ Action = "reject")
    BY <1>1 DEF CountedAs
  <2>2. suppress'[m] => \/ rep # NoCopy
                        \/ OverThreshold(c, count + 1) /\ Action # "aggregate"
    BY <1>1 DEF CountedAs, Suppresses, OverThreshold
  <2>3. QED
    BY <2>1, <2>2, PolicyAssumption DEF PolicyAssumption
<1>4. OriginalComesFirst'
  BY <1>1 DEF CountedAs, Kept, OriginalComesFirst
<1>5. Backed'
  <2>1. pc'[m] = "log" /\ pc[m] = "decide" /\ (mta'[m] = "discarded" => m \in original' \/ rep' # NoCopy)
    BY <1>1 DEF CountedAs, Kept, Backed
  <2>2. ASSUME NEW k \in Copy, k # m
        PROVE /\ pc'[k] = pc[k] /\ disp'[k] = disp[k] /\ suppress'[k] = suppress[k]
              /\ mta'[k] = mta[k] /\ entries' = entries /\ original' = original
              /\ rep' = rep
    BY <1>1, <2>2 DEF CountedAs
  <2>3. UNCHANGED <<original, rep>>
    BY <1>1 DEF CountedAs
  <2>4. QED
    BY <1>2, <1>3, <2>1, <2>2, <2>3 DEF Kept, Backed
<1>6. QED
  BY <1>4, <1>5 DEF Kept

LEMMA OriginalKept ==
    ASSUME HasRaw, TypeOK, Kept, NEW m \in Copy, StoresOriginal(m)
    PROVE Kept'
<1>1. OriginalComesFirst'
  BY OriginalShape DEF Kept, OriginalComesFirst
<1>2. Backed'
  BY OriginalShape DEF Kept, Backed
<1>3. QED
  BY <1>1, <1>2 DEF Kept

LEMMA StoreStep ==
    ASSUME HasRaw, Action # "discard"
    PROVE  StoreInv /\ [Next]_vars => StoreInv'
<1> SUFFICES ASSUME StoreInv, [Next]_vars PROVE StoreInv'
  OBVIOUS
<1>1. TypeOK'
  BY StepTypeOK DEF StoreInv
<1>2. Kept'
  <2>1. ASSUME NEW m \in Copy, RecordsCampaign(m) PROVE Kept'
    BY <2>1, RecordsKept DEF StoreInv
  <2>2. ASSUME NEW m \in Copy, StoresOriginal(m) PROVE Kept'
    BY <2>2, OriginalKept DEF StoreInv
  <2> USE HasRaw, Action # "discard", PolicyAssumption, InputAssumption, CopyAssumption
        DEF PolicyAssumption, InputAssumption, CopyAssumption, StoreInv, TypeOK,
            AllClasses, Kept, OriginalComesFirst, Backed
  <2>3. ASSUME NEW m \in Copy, LogsMail(m) PROVE Kept'
    BY <2>3 DEF LogsMail, GoesTo
  <2>4. ASSUME NEW m \in Copy, CopiesToMailbox(m) PROVE Kept'
    BY <2>4 DEF CopiesToMailbox, GoesTo
  <2>5. ASSUME NEW m \in Copy, InsertsEntry(m) PROVE Kept'
    BY <2>5 DEF InsertsEntry, Conflicts, InCampaign, Confident, GoesTo
  <2>6. ASSUME NEW m \in Copy, Represents(m) PROVE Kept'
    BY <2>6 DEF Represents, GoesTo
  <2>7. ASSUME NEW m \in Copy, StoresBlob(m) PROVE Kept'
    BY <2>7 DEF StoresBlob, KeepsBlob, GoesTo
  <2>8. ASSUME NEW m \in Copy, Replies(m) PROVE Kept'
    BY <2>8 DEF Replies, Tally, GoesTo
  <2>9. ASSUME NEW m \in Copy, RequestDies(m) PROVE Kept'
    BY <2>9 DEF RequestDies, GoesTo
  <2>10. ASSUME NEW m \in Copy, MtaHears(m) PROVE Kept'
    BY <2>10 DEF MtaHears, MilterAction
  <2>11. ASSUME NEW m \in Copy, MtaTimesOut(m) PROVE Kept'
    BY <2>11 DEF MtaTimesOut
  <2>12. ASSUME NEW m \in Copy, SettlesHold(m) PROVE Kept'
    BY <2>12 DEF SettlesHold
  <2>13. ASSUME NEW m \in Copy, ExpiresHold(m) PROVE Kept'
    BY <2>13 DEF ExpiresHold
  <2>14. CASE UNCHANGED vars
    BY <2>14 DEF vars
  <2> HIDE DEF Kept, OriginalComesFirst, Backed, StoreInv, TypeOK
  <2>15. QED
    BY <2>1, <2>2, <2>3, <2>4, <2>5, <2>6, <2>7, <2>8, <2>9, <2>10, <2>11,
       <2>12, <2>13, <2>14 DEF Next, Handle, Mta, Hold
<1>3. QED
  BY <1>1, <1>2 DEF StoreInv

\* With the aggregate and the reject action the milter discards no copy unless
\* the gateway keeps the copy's own original, or the one of the record that
\* represents the campaign.
THEOREM NothingDiscardedIsLost ==
    ASSUME Action # "discard"
    PROVE  Spec => []DiscardedIsStored
<1>1. CASE HasRaw
  <2>1. StoreInv => DiscardedIsStored
    BY DEF StoreInv, Kept, OriginalComesFirst, Backed, TypeOK, DiscardedIsStored
  <2>2. StoreInv /\ [Next]_vars => StoreInv'
    BY <1>1, StoreStep
  <2>3. QED
    BY <2>1, <2>2, StoreInit, PTL DEF Spec
<1>2. CASE ~HasRaw
  <2>1. DiscardedIsStored
    BY <1>2 DEF DiscardedIsStored
  <2>2. QED
    BY <2>1, PTL
<1>3. QED
  BY <1>1, <1>2
-----------------------------------------------------------------------------
(***************************************************************************)
(* What flood protection excludes.  Such a copy is never suppressed and    *)
(* never rejected for its campaign, so its request goes through all of the *)
(* inserts before the milter hears of it.                                  *)
(***************************************************************************)
OwnRecord ==
    \A m \in Copy :
        /\ mta[m] = "discarded" => pc[m] = "replied"
        /\ class[m] = "auth" =>
            /\ pc[m] # "decide" /\ disp[m] = "quarantined" /\ ~suppress[m]
            /\ pc[m] \in {"represent", "blob", "tally", "replied"} => m \in entries
            /\ pc[m] \in {"tally", "replied"} /\ HasRaw => m \in stored

LEMMA OwnRecordInit == Init => OwnRecord
  BY DEF Init, OwnRecord

LEMMA OwnRecordStep == TypeOK /\ OwnRecord /\ [Next]_vars => OwnRecord'
<1> SUFFICES ASSUME TypeOK, OwnRecord, [Next]_vars PROVE OwnRecord'
  OBVIOUS
<1> USE InputAssumption DEF InputAssumption, TypeOK, AllClasses, Steps, OwnRecord
<1>1. ASSUME NEW m \in Copy, RecordsCampaign(m) PROVE OwnRecord'
  BY <1>1 DEF RecordsCampaign, Suppresses, OverThreshold, Confident,
       Disposition, Quarantining, GoesTo
<1>2. ASSUME NEW m \in Copy, LogsMail(m) PROVE OwnRecord'
  BY <1>2 DEF LogsMail, GoesTo
<1>3. ASSUME NEW m \in Copy, CopiesToMailbox(m) PROVE OwnRecord'
  BY <1>3 DEF CopiesToMailbox, GoesTo
<1>4. ASSUME NEW m \in Copy, StoresOriginal(m) PROVE OwnRecord'
  BY <1>4 DEF StoresOriginal, KeepsOriginal, GoesTo
<1>5. ASSUME NEW m \in Copy, InsertsEntry(m) PROVE OwnRecord'
  BY <1>5 DEF InsertsEntry, Conflicts, Confident, GoesTo
<1>6. ASSUME NEW m \in Copy, Represents(m) PROVE OwnRecord'
  BY <1>6 DEF Represents, GoesTo
<1>7. ASSUME NEW m \in Copy, StoresBlob(m) PROVE OwnRecord'
  BY <1>7 DEF StoresBlob, KeepsBlob, GoesTo
<1>8. ASSUME NEW m \in Copy, Replies(m) PROVE OwnRecord'
  BY <1>8 DEF Replies, GoesTo
<1>9. ASSUME NEW m \in Copy, RequestDies(m) PROVE OwnRecord'
  BY <1>9 DEF RequestDies, GoesTo
<1>10. ASSUME NEW m \in Copy, MtaHears(m) PROVE OwnRecord'
  BY <1>10 DEF MtaHears, MilterAction
<1>11. ASSUME NEW m \in Copy, MtaTimesOut(m) PROVE OwnRecord'
  BY <1>11 DEF MtaTimesOut
<1>12. ASSUME NEW m \in Copy, SettlesHold(m) PROVE OwnRecord'
  BY <1>12 DEF SettlesHold
<1>13. ASSUME NEW m \in Copy, ExpiresHold(m) PROVE OwnRecord'
  BY <1>13 DEF ExpiresHold
<1>14. CASE UNCHANGED vars
  BY <1>14 DEF vars
<1> HIDE DEF OwnRecord
<1>15. QED
  BY <1>1, <1>2, <1>3, <1>4, <1>5, <1>6, <1>7, <1>8, <1>9, <1>10, <1>11, <1>12, <1>13, <1>14
     DEF Next, Handle, Mta, Hold

\* A challenge or authentication hold that the milter discarded has a
\* quarantine record of its own, with its bytes, however large the campaign it
\* is counted in and whatever the policy does with the campaign
\* (highConfidenceCampaign, and the unique index that covers none of them).
THEOREM ExcludedKeepTheirs == Spec => []ExcludedKeepsItsRecord
<1>1. OwnRecord => ExcludedKeepsItsRecord
  BY DEF OwnRecord, ExcludedKeepsItsRecord
<1>2. QED
  BY <1>1, InitTypeOK, StepTypeOK, OwnRecordInit, OwnRecordStep, PTL DEF Spec
=============================================================================
