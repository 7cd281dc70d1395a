---------------------------- MODULE Stores_proofs ---------------------------
(***************************************************************************)
(* Proofs about what is read here and kept there.  No save of the runtime  *)
(* settings loses what another one stored, for any number of cards and     *)
(* settings, and however often requests are lost or the process stops.  No *)
(* request is answered from a list of models that was cleared before it    *)
(* came, nor from one older than promised, for any number of requests and  *)
(* entries.                                                                *)
(***************************************************************************)
EXTENDS RuntimeSettings, ModelsCache, TLAPS

-----------------------------------------------------------------------------
(* The runtime settings. *)

\* A row that was read is an earlier one, or the present one.
Seen(r) == /\ r.version <= row.version
           /\ r.version = row.version => r.values = row.values

\* What was not edited is what was loaded.
CardOK(c) == /\ Seen(card[c].base)
             /\ \A k \in Fields \ card[c].edited : card[c].draft[k] = card[c].base.values[k]

PatchOK(w) == /\ w.expected <= row.version
              /\ w.expected = row.version =>
                   \A k \in Fields \ w.touched : w.changes[k] = row.values[k]

WireOK(c) == /\ wire[c].kind = "row" => Seen(wire[c].row)
             /\ wire[c].kind = "patch" => PatchOK(wire[c])

SettingsIInv ==
  /\ SettingsTypeOK
  /\ SnapshotIsStored
  /\ \A c \in Cards : CardOK(c) /\ WireOK(c)

ACard   == [phase : Phases, base : Rows, draft : [Fields -> Values], edited : SUBSET Fields]
Patches == [kind : {"patch"}, expected : 0..MaxVersion, changes : [Fields -> Values],
            touched : SUBSET Fields]

-----------------------------------------------------------------------------
(* What is of which type. *)

\* A message is told by its kind.
LEMMA Kinds ==
  ASSUME NEW w \in Messages
  PROVE  /\ w.kind = "patch" => w \in Patches
         /\ w.kind = "row" => w.row \in Rows
  BY DEF Messages, NoMessage, Refused, Patches

LEMMA RowsType ==
  /\ NoRow \in Rows /\ NoRow.version = 0 /\ NoRow.values = Defaults
  /\ Defaults \in [Fields -> Values]
  BY SettingsAssumption DEF NoRow, Row, Rows

LEMMA MessagesType ==
  /\ \A w \in {"get", "conflict", "invalid", "lost"} : Refused(w) \in Messages
  /\ NoMessage \in Messages
  /\ \A r \in Rows : Got(r) \in Messages
  /\ \A n \in 0..MaxVersion, ch \in [Fields -> Values], t \in SUBSET Fields :
       Patch(n, ch, t) \in Messages
  BY DEF Messages, Refused, NoMessage, Got, Patch

LEMMA UnmountedOK ==
  ASSUME NEW phase \in Phases, NEW c \in Cards, card'[c] = Unmounted(phase),
         row' \in Rows, row'.version > 0
  PROVE  Unmounted(phase) \in ACard /\ CardOK(c)'
  <1>1. Unmounted(phase) \in ACard
    BY RowsType DEF Unmounted, ACard
  <1>2. card'[c].base = NoRow /\ card'[c].draft = Defaults
    BY DEF Unmounted
  <1>3. Seen(card[c].base)'
    BY <1>2, RowsType DEF Seen, Rows
  <1> QED
    BY <1>1, <1>2, <1>3, RowsType DEF CardOK

\* What a save writes.
LEMMA SaveWrites ==
  ASSUME SettingsTypeOK, NEW changes, Save(changes), Valid(changes), row.version < MaxVersion
  PROVE  /\ row' \in Rows /\ row'.version = row.version + 1 /\ row'.version > 0
         /\ row'.values = Merged(changes)
         /\ snapshot' = row'
  <1>1. row.version \in 0..MaxVersion
    BY DEF SettingsTypeOK, Rows
  <1>2. Merged(changes) \in [Fields -> Accepted]
    BY DEF Merged, Valid
  <1> HIDE DEF Merged
  <1>3. row' = [values |-> Merged(changes), version |-> row.version + 1]
    BY DEF Save, Row
  <1> QED
    BY <1>1, <1>2, <1>3, SettingsAssumption DEF Save, Rows

\* What was read, or is to be saved, before a save is out of date after it.
LEMMA SaveOutdates ==
  ASSUME SettingsIInv, row' \in Rows, row'.version = row.version + 1, NEW c \in Cards
  PROVE  /\ card'[c] = card[c] => CardOK(c)'
         /\ wire'[c] = wire[c] => WireOK(c)'
  <1>1. row.version \in Nat /\ row'.version \in Nat
    BY DEF SettingsIInv, SettingsTypeOK, Rows
  <1>2. ASSUME NEW r, r.version \in Nat, Seen(r)
        PROVE  r.version <= row'.version /\ r.version # row'.version
    BY <1>1, <1>2 DEF Seen
  <1>3. card[c].base.version \in Nat /\ CardOK(c) /\ WireOK(c) /\ wire[c] \in Messages
    BY DEF SettingsIInv, SettingsTypeOK, Rows
  <1>4. card'[c] = card[c] => CardOK(c)'
    <2>1. SUFFICES ASSUME card'[c] = card[c] PROVE CardOK(c)'
      OBVIOUS
    <2>2. Seen(card[c].base)'
      BY <1>2, <1>3, <2>1 DEF CardOK, Seen
    <2> QED
      BY <1>3, <2>1, <2>2 DEF CardOK
  <1>5. wire'[c] = wire[c] => WireOK(c)'
    <2>1. SUFFICES ASSUME wire'[c] = wire[c] PROVE WireOK(c)'
      OBVIOUS
    <2>2. ASSUME wire[c].kind = "row" PROVE Seen(wire[c].row)'
      <3>1. wire[c].row.version \in Nat
        BY <1>3, <2>2, Kinds DEF Rows
      <3> QED
        BY <1>2, <1>3, <2>1, <2>2, <3>1 DEF WireOK, Seen
    <2>3. ASSUME wire[c].kind = "patch" PROVE PatchOK(wire[c])'
      <3>1. wire[c].expected \in Nat /\ wire[c].expected <= row.version
        BY <1>3, <2>3, Kinds DEF Patches, WireOK, PatchOK
      <3> QED
        BY <1>1, <2>1, <3>1 DEF PatchOK
    <2> QED
      BY <2>1, <2>2, <2>3 DEF WireOK
  <1> QED
    BY <1>4, <1>5

\* Without a save, what is unchanged stays right.
LEMMA RowStays ==
  ASSUME SettingsIInv, row' = row, NEW c \in Cards
  PROVE  /\ card'[c] = card[c] => CardOK(c)'
         /\ wire'[c] = wire[c] => WireOK(c)'
  BY DEF SettingsIInv, CardOK, WireOK, Seen, PatchOK

\* A patch is saved only at the version it was read at, and with values that are stored.
LEMMA SavedIsCurrent ==
  ASSUME NEW n, NEW changes, Verdict(n, changes) = "saved"
  PROVE  n = row.version /\ Valid(changes)
  BY DEF Verdict, Conflicts

-----------------------------------------------------------------------------

LEMMA SettingsInitHolds == SettingsInit => SettingsIInv
  <1> SUFFICES ASSUME SettingsInit PROVE SettingsIInv
    OBVIOUS
  <1> USE SettingsAssumption
  <1>1. row \in Rows /\ row.version > 0 /\ snapshot \in Rows /\ snapshot.version = 0
    <2>1. Row(Defaults, 1) \in Rows /\ Row(Defaults, 1).version = 1
      BY DEF Row, Rows
    <2> QED
      BY <2>1, RowsType DEF SettingsInit
  <1>2. ASSUME NEW c \in Cards
        PROVE  /\ card[c] \in ACard /\ wire[c] \in Messages
               /\ CardOK(c) /\ WireOK(c)
    <2>1. card[c] = Unmounted("unopened") /\ wire[c] = NoMessage
      BY DEF SettingsInit
    <2>2. card[c].base = NoRow /\ card[c].draft = Defaults /\ card[c] \in ACard
      BY <2>1, RowsType DEF Unmounted, ACard, Phases
    <2>3. CardOK(c)
      BY <1>1, <2>2, RowsType DEF CardOK, Seen, Rows
    <2>4. wire[c] \in Messages /\ WireOK(c)
      BY <2>1, MessagesType DEF WireOK, NoMessage
    <2> QED
      BY <2>2, <2>3, <2>4
  <1>3. card \in [Cards -> ACard] /\ wire \in [Cards -> Messages]
    BY <1>2 DEF SettingsInit
  <1>4. SettingsTypeOK
    BY <1>1, <1>3 DEF SettingsInit, SettingsTypeOK, ACard
  <1>5. SnapshotIsStored
    BY <1>1 DEF SnapshotIsStored
  <1> QED
    BY <1>2, <1>4, <1>5 DEF SettingsIInv

\* Every step keeps the invariant.
LEMMA SettingsNextHolds == SettingsIInv /\ [SettingsNext]_settingsVars => SettingsIInv'
  <1> SUFFICES ASSUME SettingsIInv, [SettingsNext]_settingsVars PROVE SettingsIInv'
    OBVIOUS
  <1> USE SettingsAssumption
  <1>1. /\ card \in [Cards -> ACard] /\ wire \in [Cards -> Messages] /\ service \in {"login", "sso"}
        /\ row \in Rows /\ row.version > 0 /\ snapshot \in Rows /\ SnapshotIsStored
    BY DEF SettingsIInv, SettingsTypeOK, ACard
  <1>2. ASSUME card' \in [Cards -> ACard], wire' \in [Cards -> Messages], service' = service,
               row' \in Rows, row'.version > 0, snapshot' \in Rows, SnapshotIsStored',
               \A c \in Cards : CardOK(c)' /\ WireOK(c)'
        PROVE  SettingsIInv'
    BY <1>1, <1>2 DEF SettingsIInv, SettingsTypeOK, ACard
  <1>3. Current = row /\ Current \in Rows
    BY <1>1 DEF Current, SnapshotIsStored, Rows
  \* One card changes, or its message; nothing is stored.
  <1>4. ASSUME NEW c \in Cards, UNCHANGED <<service, row, snapshot>>,
               card' \in [Cards -> ACard], wire' \in [Cards -> Messages],
               \A d \in Cards \ {c} : card'[d] = card[d] /\ wire'[d] = wire[d],
               CardOK(c)', WireOK(c)'
        PROVE  SettingsIInv'
    <2>1. \A d \in Cards : CardOK(d)' /\ WireOK(d)'
      BY <1>4, RowStays
    <2>2. SnapshotIsStored'
      BY <1>1, <1>4 DEF SnapshotIsStored
    <2> QED
      BY <1>1, <1>2, <1>4, <2>1, <2>2
  \* Something is stored, and the message of one card may change.
  <1>5. ASSUME NEW changes, Save(changes), Valid(changes), row.version < MaxVersion,
               UNCHANGED <<service, card>>, wire' \in [Cards -> Messages],
               \A d \in Cards : wire'[d] = wire[d] \/ WireOK(d)'
        PROVE  SettingsIInv'
    <2>1. SettingsTypeOK
      BY DEF SettingsIInv
    <2>2. /\ row' \in Rows /\ row'.version = row.version + 1 /\ row'.version > 0
          /\ snapshot' = row'
      BY <1>5, <2>1, SaveWrites
    <2>3. \A d \in Cards : CardOK(d)' /\ WireOK(d)'
      BY <1>5, <2>2, SaveOutdates
    <2>4. SnapshotIsStored'
      BY <2>2 DEF SnapshotIsStored
    <2> QED
      BY <1>1, <1>2, <1>5, <2>2, <2>3, <2>4
  <1>6. CASE SettingsRestart
    <2>1. \A d \in Cards : CardOK(d)' /\ WireOK(d)'
      BY <1>6, RowStays DEF SettingsRestart
    <2>2. SnapshotIsStored' /\ snapshot' \in Rows
      BY <1>6, RowsType DEF SettingsRestart, SnapshotIsStored
    <2> QED
      BY <1>1, <1>2, <1>6, <2>1, <2>2 DEF SettingsRestart
  <1>7. ASSUME NEW c \in Cards, ServeGet(c) PROVE SettingsIInv'
    <2>1. wire'[c] = Got(row) /\ row' = row /\ snapshot' = row /\ card' = card /\ service' = service
      BY <1>1, <1>3, <1>7 DEF ServeGet
    <2>2. wire' \in [Cards -> Messages] /\ \A d \in Cards \ {c} : wire'[d] = wire[d]
      BY <1>1, <1>3, <1>7, MessagesType DEF ServeGet
    <2>3. WireOK(c)'
      <3>1. wire'[c].kind = "row" /\ wire'[c].row = row
        BY <2>1 DEF Got
      <3>2. row.version \in Nat
        BY <1>1 DEF Rows
      <3> QED
        BY <2>1, <3>1, <3>2 DEF WireOK, Seen
    <2>4. \A d \in Cards : CardOK(d)' /\ WireOK(d)'
      BY <2>1, <2>2, <2>3, RowStays
    <2>5. SnapshotIsStored'
      BY <2>1 DEF SnapshotIsStored
    <2> QED
      BY <1>1, <1>2, <2>1, <2>2, <2>4, <2>5
  <1>8. ASSUME NEW c \in Cards, ServePatch(c) PROVE SettingsIInv'
    <2> DEFINE verdict == Verdict(wire[c].expected, wire[c].changes)
    <2>1. CASE verdict = "saved"
      <3>1. /\ row.version < MaxVersion /\ Save(wire[c].changes) /\ UNCHANGED <<service, card>>
            /\ wire' = [wire EXCEPT ![c] = Got(row')]
        BY <1>8, <2>1 DEF ServePatch
      <3>2. Valid(wire[c].changes)
        BY <2>1, SavedIsCurrent
      <3>3. SettingsTypeOK
        BY DEF SettingsIInv
      <3>4. row' \in Rows
        BY <3>1, <3>2, <3>3, SaveWrites
      <3>5. wire' \in [Cards -> Messages] /\ wire'[c] = Got(row') /\ \A d \in Cards \ {c} : wire'[d] = wire[d]
        BY <1>1, <3>1, <3>4, MessagesType
      <3>6. WireOK(c)'
        <4>1. wire'[c].kind = "row" /\ wire'[c].row = row' /\ row'.version \in Nat
          BY <3>4, <3>5 DEF Got, Rows
        <4> QED
          BY <4>1 DEF WireOK, Seen
      <3> QED
        BY <1>5, <3>1, <3>2, <3>5, <3>6
    <2>2. CASE verdict # "saved"
      <3>1. /\ UNCHANGED <<service, row, snapshot, card>>
            /\ wire' = [wire EXCEPT ![c] = Refused(verdict)]
        BY <1>8, <2>2 DEF ServePatch
      <3>2. verdict \in {"conflict", "invalid"}
        BY <2>2 DEF Verdict
      <3> HIDE DEF verdict
      <3>3. wire' \in [Cards -> Messages] /\ wire'[c] = Refused(verdict)
        BY <1>1, <3>1, <3>2, MessagesType
      <3>4. WireOK(c)'
        BY <3>2, <3>3 DEF WireOK, Refused
      <3>5. CardOK(c)'
        BY <3>1, RowStays
      <3>6. \A d \in Cards \ {c} : wire'[d] = wire[d]
        BY <1>1, <3>1
      <3> QED
        BY <1>1, <1>4, <3>1, <3>3, <3>4, <3>5, <3>6
    <2> QED
      BY <2>1, <2>2
  <1>9. ASSUME NEW n, NEW changes, ClientPatch(n, changes) PROVE SettingsIInv'
    <2>1. Valid(changes) /\ Save(changes) /\ row.version < MaxVersion /\ UNCHANGED <<service, card, wire>>
      BY <1>9, SavedIsCurrent DEF ClientPatch
    <2> QED
      BY <1>1, <1>5, <2>1
  <1>10. ASSUME NEW c \in Cards, NEW phase \in Phases, Load(c, phase) PROVE SettingsIInv'
    <2>1. card' \in [Cards -> ACard] /\ wire' \in [Cards -> Messages]
      BY <1>1, <1>10, MessagesType DEF Load, ACard
    <2>2. WireOK(c)'
      BY <1>1, <1>10 DEF Load, WireOK, Refused
    <2>3. CardOK(c)'
      BY <1>1, <1>10 DEF Load, SettingsIInv, CardOK, Seen, ACard
    <2>4. \A d \in Cards \ {c} : card'[d] = card[d] /\ wire'[d] = wire[d]
      BY <1>1, <1>10 DEF Load
    <2> QED
      BY <1>4, <1>10, <2>1, <2>2, <2>3, <2>4 DEF Load
  <1>11. ASSUME NEW c \in Cards, CloseCard(c) PROVE SettingsIInv'
    <2>1. card' = [card EXCEPT ![c] = Unmounted("gone")] /\ UNCHANGED <<service, row, snapshot, wire>>
      BY <1>11 DEF CloseCard
    <2>2. card'[c] = Unmounted("gone") /\ \A d \in Cards \ {c} : card'[d] = card[d]
      BY <1>1, <2>1
    <2>3. Unmounted("gone") \in ACard /\ CardOK(c)'
      BY <1>1, <2>1, <2>2, UnmountedOK DEF Phases
    <2>4. WireOK(c)'
      BY <2>1, RowStays
    <2> QED
      BY <1>1, <1>4, <2>1, <2>2, <2>3, <2>4
  <1>12. ASSUME NEW c \in Cards, NEW k \in Fields, NEW v \in Values, Edit(c, k, v) PROVE SettingsIInv'
    <2> DEFINE edited == [[card[c] EXCEPT !.draft = [@ EXCEPT ![k] = v]] EXCEPT !.edited = @ \cup {k}]
    <2>1. card[c] \in ACard /\ CardOK(c)
      BY <1>1 DEF SettingsIInv
    <2>2. /\ edited \in ACard /\ edited.base = card[c].base
          /\ edited.edited = card[c].edited \cup {k}
          /\ edited.draft = [card[c].draft EXCEPT ![k] = v]
      BY <2>1 DEF ACard
    <2>3. card' = [card EXCEPT ![c] = edited] /\ UNCHANGED <<service, row, snapshot, wire>>
      BY <1>1, <1>12 DEF Edit, ACard
    <2> HIDE DEF edited
    <2>4. card'[c] = edited /\ (\A d \in Cards \ {c} : card'[d] = card[d]) /\ card' \in [Cards -> ACard]
      BY <1>1, <2>2, <2>3
    <2>5. CardOK(c)'
      BY <2>1, <2>2, <2>3, <2>4 DEF CardOK, Seen, ACard
    <2>6. WireOK(c)'
      BY <2>3, RowStays
    <2> QED
      BY <1>1, <1>4, <2>3, <2>4, <2>5, <2>6
  <1>13. ASSUME NEW c \in Cards, SaveAndApply(c) PROVE SettingsIInv'
    <2> DEFINE patch == Patch(card[c].base.version, card[c].draft, card[c].edited)
    <2>1. /\ card' = [card EXCEPT ![c].phase = "saving"] /\ wire' = [wire EXCEPT ![c] = patch]
          /\ UNCHANGED <<service, row, snapshot>>
      BY <1>13 DEF SaveAndApply
    <2>2. card[c] \in ACard /\ CardOK(c)
      BY <1>1 DEF SettingsIInv
    <2>3. /\ card[c].base.version \in 0..MaxVersion /\ card[c].draft \in [Fields -> Values]
          /\ card[c].edited \in SUBSET Fields
      BY <2>2 DEF ACard, Rows
    <2>4. patch \in Messages
      BY <2>3, MessagesType
    <2>5. /\ patch.kind = "patch" /\ patch.expected = card[c].base.version
          /\ patch.changes = card[c].draft /\ patch.touched = card[c].edited
      BY DEF Patch
    <2> HIDE DEF patch
    <2>6. /\ card' \in [Cards -> ACard] /\ wire' \in [Cards -> Messages] /\ wire'[c] = patch
          /\ \A d \in Cards \ {c} : card'[d] = card[d] /\ wire'[d] = wire[d]
      BY <1>1, <2>1, <2>4 DEF ACard, Phases
    <2>7. WireOK(c)'
      BY <2>1, <2>2, <2>5, <2>6 DEF WireOK, PatchOK, CardOK, Seen
    <2>8. CardOK(c)'
      BY <1>1, <2>1, <2>2 DEF CardOK, Seen, ACard
    <2> QED
      BY <1>4, <2>1, <2>6, <2>7, <2>8
  <1>14. ASSUME NEW c \in Cards, Adopt(c) PROVE SettingsIInv'
    <2> DEFINE adopted == [phase |-> "ready", base |-> wire[c].row, draft |-> wire[c].row.values, edited |-> {}]
    <2>1. /\ card' = [card EXCEPT ![c] = adopted] /\ wire' = [wire EXCEPT ![c] = NoMessage]
          /\ UNCHANGED <<service, row, snapshot>> /\ wire[c].kind = "row"
      BY <1>14 DEF Adopt
    <2>2. wire[c].row \in Rows /\ Seen(wire[c].row)
      BY <1>1, <2>1, Kinds DEF SettingsIInv, WireOK
    <2>3. adopted \in ACard /\ adopted.base = wire[c].row /\ adopted.draft = wire[c].row.values
      BY <2>2 DEF ACard, Phases, Rows
    <2> HIDE DEF adopted
    <2>4. /\ card' \in [Cards -> ACard] /\ wire' \in [Cards -> Messages]
          /\ card'[c] = adopted /\ wire'[c] = NoMessage
          /\ \A d \in Cards \ {c} : card'[d] = card[d] /\ wire'[d] = wire[d]
      BY <1>1, <2>1, <2>3, MessagesType
    <2>5. CardOK(c)'
      BY <2>1, <2>2, <2>3, <2>4 DEF CardOK, Seen
    <2>6. WireOK(c)'
      BY <2>4 DEF WireOK, NoMessage
    <2> QED
      BY <1>4, <2>1, <2>4, <2>5, <2>6
  <1>15. ASSUME NEW c \in Cards, ShowError(c) PROVE SettingsIInv'
    <2>1. /\ card' \in [Cards -> ACard] /\ wire' \in [Cards -> Messages] /\ wire'[c] = NoMessage
          /\ \A d \in Cards \ {c} : card'[d] = card[d] /\ wire'[d] = wire[d]
          /\ UNCHANGED <<service, row, snapshot>>
      BY <1>1, <1>15, MessagesType DEF ShowError, ACard, Phases
    <2>2. CardOK(c)'
      BY <1>1, <1>15 DEF ShowError, SettingsIInv, CardOK, Seen, ACard
    <2>3. WireOK(c)'
      BY <2>1 DEF WireOK, NoMessage
    <2> QED
      BY <1>4, <2>1, <2>2, <2>3
  <1>16. ASSUME NEW c \in Cards, LoseRequest(c) PROVE SettingsIInv'
    <2>1. /\ wire' \in [Cards -> Messages] /\ wire'[c] = Refused("lost")
          /\ \A d \in Cards \ {c} : wire'[d] = wire[d]
          /\ UNCHANGED <<service, row, snapshot, card>>
      BY <1>1, <1>16, MessagesType DEF LoseRequest
    <2>2. WireOK(c)'
      BY <2>1 DEF WireOK, Refused
    <2>3. CardOK(c)'
      BY <2>1, RowStays
    <2> QED
      BY <1>1, <1>4, <2>1, <2>2, <2>3
  <1>17. ASSUME NEW c \in Cards, OpenCard(c) \/ Reload(c) PROVE SettingsIInv'
    BY <1>10, <1>17 DEF OpenCard, Reload, Phases
  <1>18. CASE UNCHANGED settingsVars
    <2>1. \A d \in Cards : CardOK(d)' /\ WireOK(d)'
      BY <1>18, RowStays DEF settingsVars
    <2> QED
      BY <1>1, <1>2, <1>18, <2>1 DEF settingsVars, SnapshotIsStored
  <1> QED
    BY <1>6, <1>7, <1>8, <1>9, <1>11, <1>12, <1>13, <1>14, <1>15, <1>16, <1>17, <1>18
    DEF SettingsNext

-----------------------------------------------------------------------------

\* The type invariant, and that cards and requests know earlier rows or the present one.
THEOREM SettingsInvariance == SettingsSpec => []SettingsIInv
  <1>1. SettingsInit => SettingsIInv
    BY SettingsInitHolds
  <1>2. SettingsIInv /\ [SettingsNext]_settingsVars => SettingsIInv'
    BY SettingsNextHolds
  <1> QED
    BY <1>1, <1>2, PTL DEF SettingsSpec

\* The process never answers from, nor works with, an old row.
THEOREM SnapshotStored == SettingsSpec => []SnapshotIsStored
  <1>1. SettingsIInv => SnapshotIsStored
    BY DEF SettingsIInv
  <1> QED
    BY <1>1, SettingsInvariance, PTL

\* Whoever else saves, and whatever is lost, a save changes no setting its operator left alone.
THEOREM NoUpdateLost == SettingsSpec => NoLostUpdate
  <1> DEFINE Keeps == \A c \in Cards : wire[c].kind = "patch" /\ wire'[c].kind = "row" =>
                        \A k \in Fields \ wire[c].touched : row'.values[k] = AsStored(row.values[k])
  <1>1. SettingsIInv /\ [SettingsNext]_settingsVars => [Keeps]_settingsVars
    <2> SUFFICES ASSUME SettingsIInv, SettingsNext, NEW c \in Cards,
                        wire[c].kind = "patch", wire'[c].kind = "row",
                        NEW k \in Fields \ wire[c].touched
                 PROVE  row'.values[k] = AsStored(row.values[k])
      OBVIOUS
    <2>1. wire \in [Cards -> Messages]
      BY DEF SettingsIInv, SettingsTypeOK
    <2>2. ASSUME ServePatch(c) PROVE row'.values[k] = AsStored(row.values[k])
      <3>1. Verdict(wire[c].expected, wire[c].changes) = "saved"
        <4>1. Verdict(wire[c].expected, wire[c].changes) # "row"
          BY DEF Verdict
        <4>2. CASE Verdict(wire[c].expected, wire[c].changes) # "saved"
          <5>1. wire'[c].kind = Verdict(wire[c].expected, wire[c].changes)
            BY <2>1, <2>2, <4>2 DEF ServePatch, Refused
          <5> QED
            BY <4>1, <5>1
        <4> QED
          BY <4>2
      <3>2. wire[c].expected = row.version /\ Valid(wire[c].changes)
        BY <3>1, SavedIsCurrent
      <3>3. row'.values = Merged(wire[c].changes)
        BY <2>2, <3>1, <3>2, SaveWrites DEF ServePatch, SettingsIInv
      <3>4. wire[c].changes \in [Fields -> Values]
        BY <2>1, Kinds DEF Patches
      <3>5. wire[c].changes[k] = row.values[k]
        BY <3>2 DEF SettingsIInv, WireOK, PatchOK
      <3> QED
        BY <3>3, <3>4, <3>5 DEF Merged
    <2>3. ASSUME NEW d \in Cards, ServePatch(d) PROVE d = c
      <3>1. CASE d # c
        BY <2>1, <2>3, <3>1 DEF ServePatch
      <3> QED
        BY <3>1
    \* No other step answers a patch with a row.
    <2>4. CASE \E d \in Cards : ServeGet(d)
      BY <2>1, <2>4 DEF ServeGet
    <2>5. CASE \E d \in Cards, phase \in Phases : Load(d, phase)
      BY <2>1, <2>5 DEF Load, Refused
    <2>6. CASE \E d \in Cards : SaveAndApply(d)
      BY <2>1, <2>6 DEF SaveAndApply, Patch
    <2>7. CASE \E d \in Cards : Adopt(d) \/ ShowError(d)
      BY <2>1, <2>7 DEF Adopt, ShowError, NoMessage
    <2>8. CASE \E d \in Cards : LoseRequest(d)
      BY <2>1, <2>8 DEF LoseRequest, Refused
    <2>9. CASE wire' = wire
      BY <2>9
    <2> QED
      BY <2>2, <2>3, <2>4, <2>5, <2>6, <2>7, <2>8, <2>9
      DEF SettingsNext, SettingsRestart, CloseCard, Edit, ClientPatch, OpenCard, Reload, Phases
  <1> QED
    BY <1>1, SettingsInvariance, PTL DEF SettingsSpec, NoLostUpdate

-----------------------------------------------------------------------------
(* The models cache. *)

AnEntry == [snapshot : Snapshots, fetch : [open : BOOLEAN, begun : 0..MaxEntries]]
AReader == [at : {"away", "waiting", "has", "refused"},
            for : {"list", "bypass", "path", "recheck"}, entry : 0..MaxEntries,
            old : Snapshots, got : Snapshots, since : 0..MaxNow, epoch : 0..MaxEntries,
            stale : BOOLEAN]

\* What is in the entry of the map was begun since the map was cleared last.
EntryOK(n) ==
  /\ n > made => entries[n] = [snapshot |-> Nothing, fetch |-> NoFetch]
  /\ n = current => /\ entries[n].fetch.open => entries[n].fetch.begun = cleared
                    /\ entries[n].snapshot.fetchedAt > 0 => entries[n].snapshot.begun = cleared

\* A request that waits does so for a fetch that is under way, and neither that nor the
\* list it may fall back to is from before its time.
WaitsOK(x) ==
  /\ x.entry \in 1..made /\ entries[x.entry].fetch.open
  /\ entries[x.entry].fetch.begun >= x.epoch
  /\ x.old.fetchedAt > 0 => x.old.begun >= x.epoch
  /\ ~x.stale

HasOK(x) ==
  /\ x.got.begun >= x.epoch
  /\ Forced(x.for) => x.got.fetchedAt >= x.since
  /\ x.got.fetchedAt + StaleMax >= x.since
  /\ ~x.stale => x.got.fetchedAt + Ttl > x.since

RefusedOK(x) == x.got.begun >= x.epoch /\ x.got.fetchedAt + Recheck >= x.since

ReaderOK(x) ==
  /\ x.epoch <= cleared /\ x.since <= now
  /\ x.at = "waiting" => WaitsOK(x)
  /\ x.at = "has" => HasOK(x)
  /\ x.at = "refused" => RefusedOK(x)

CacheIInv ==
  /\ CacheTypeOK
  /\ \A n \in 1..MaxEntries : EntryOK(n)
  /\ \A r \in Readers : ReaderOK(reader[r])

-----------------------------------------------------------------------------

LEMMA Bounds == Ttl \in Nat /\ StaleMax \in Nat /\ Recheck \in Nat /\ MaxEntries \in Nat /\ MaxNow \in Nat
  BY CacheAssumption

LEMMA NothingType ==
  /\ Nothing \in Snapshots /\ Nothing.fetchedAt = 0 /\ Nothing.begun = 0
  /\ NoFetch \in [open : BOOLEAN, begun : 0..MaxEntries] /\ ~NoFetch.open
  BY CacheAssumption DEF Nothing, Snapshots, NoFetch

LEMMA AwayType == Away \in AReader
  BY CacheAssumption, NothingType DEF Away, AReader

LEMMA AwayOK ==
  ASSUME CacheTypeOK
  PROVE  ReaderOK(Away)
  BY DEF CacheTypeOK, ReaderOK, Away

\* What the type invariant says, with the records named.
LEMMA CacheTypes ==
  CacheTypeOK <=> /\ now \in 1..MaxNow /\ cleared \in 0..MaxEntries
                  /\ current \in 0..made /\ made \in 0..MaxEntries
                  /\ entries \in [1..MaxEntries -> AnEntry]
                  /\ reader \in [Readers -> AReader]
  BY DEF CacheTypeOK, AnEntry, AReader

LEMMA CacheInitHolds == CacheInit => CacheIInv
  <1> SUFFICES ASSUME CacheInit PROVE CacheIInv
    OBVIOUS
  <1>1. entries \in [1..MaxEntries -> AnEntry] /\ reader \in [Readers -> AReader]
    BY NothingType, AwayType DEF CacheInit, AnEntry
  <1>2. CacheTypeOK
    BY <1>1, CacheTypes, CacheAssumption DEF CacheInit
  <1>3. \A n \in 1..MaxEntries : EntryOK(n)
    BY DEF CacheInit, EntryOK
  <1>4. \A r \in Readers : ReaderOK(reader[r])
    BY <1>2, AwayOK DEF CacheInit
  <1> QED
    BY <1>2, <1>3, <1>4 DEF CacheIInv

-----------------------------------------------------------------------------

\* What a request asks with is well typed.
LEMMA AskedType ==
  ASSUME CacheTypeOK, NEW at \in {"waiting", "has"},
         NEW purpose \in {"list", "bypass", "path", "recheck"}, NEW n \in 0..MaxEntries,
         NEW epoch \in 0..MaxEntries, NEW old \in Snapshots, NEW got \in Snapshots
  PROVE  Asked(at, purpose, n, epoch, old, got) \in AReader
  BY DEF Asked, AReader, CacheTypeOK

\* A request that comes, or looks again, gets what is in the map or waits for it.
LEMMA AskHolds ==
  ASSUME CacheIInv, NEW r \in Readers, NEW purpose \in {"list", "bypass", "path", "recheck"},
         NEW epoch \in 0..cleared, Ask(r, purpose, epoch)
  PROVE  CacheIInv'
  <1> USE CacheAssumption
  <1>1. /\ now \in 1..MaxNow /\ cleared \in 0..MaxEntries
        /\ current \in 0..made /\ made \in 0..MaxEntries
        /\ entries \in [1..MaxEntries -> AnEntry]
        /\ reader \in [Readers -> AReader]
    BY CacheTypes, Bounds DEF CacheIInv
  <1>2. PICK n \in 1..MaxEntries : n = IF current = 0 THEN made + 1 ELSE current
    BY <1>1 DEF Ask
  <1>3. /\ current' = n /\ made' = (IF current = 0 THEN n ELSE made)
        /\ now' = now /\ cleared' = cleared
    BY <1>2 DEF Ask
  <1>4. /\ made' \in 0..MaxEntries /\ current' \in 0..made' /\ n \in 1..made' /\ made <= made'
        /\ \A m \in 1..MaxEntries : m > made' => m > made
    BY <1>1, <1>2, <1>3
  <1>5. PICK s \in Snapshots : s = entries[n].snapshot
    BY <1>1 DEF AnEntry
  <1>6. /\ entries[n].fetch.open => entries[n].fetch.begun = cleared
        /\ s.fetchedAt > 0 => s.begun = cleared
    <2>1. EntryOK(n)
      BY DEF CacheIInv
    <2>2. CASE n > made
      BY <1>5, <2>1, <2>2, NothingType DEF EntryOK
    <2>3. CASE n <= made
      BY <1>1, <1>2, <1>5, <2>1, <2>3 DEF EntryOK
    <2> QED
      BY <1>1, <2>2, <2>3
  <1>7. \/ /\ Fresh(s) /\ ~Forced(purpose)
           /\ reader' = [reader EXCEPT ![r] = Asked("has", purpose, n, epoch, Nothing, s)]
           /\ entries' = entries
        \/ /\ reader' = [reader EXCEPT ![r] = Asked("waiting", purpose, n, epoch, s, Nothing)]
           /\ entries' = IF entries[n].fetch.open THEN entries
                         ELSE [entries EXCEPT ![n].fetch = [open |-> TRUE, begun |-> cleared]]
    BY <1>2, <1>5 DEF Ask
  <1>8. /\ entries' \in [1..MaxEntries -> AnEntry]
        /\ \A m \in 1..MaxEntries \ {n} : entries'[m] = entries[m]
        /\ entries'[n].snapshot = s
        /\ entries[n].fetch.open => entries' = entries
        /\ entries'[n].fetch.open => entries'[n].fetch.begun = cleared
    <2>1. CASE entries' = entries
      BY <1>1, <1>5, <1>6, <2>1
    <2>2. CASE entries' = [entries EXCEPT ![n].fetch = [open |-> TRUE, begun |-> cleared]] /\ ~entries[n].fetch.open
      <3> DEFINE e == [entries[n] EXCEPT !.fetch = [open |-> TRUE, begun |-> cleared]]
      <3>1. entries[n] \in AnEntry
        BY <1>1
      <3>2. e \in AnEntry /\ e.snapshot = s /\ e.fetch.begun = cleared
        BY <1>1, <1>5, <3>1 DEF AnEntry
      <3>3. entries' = [entries EXCEPT ![n] = e]
        BY <2>2
      <3> HIDE DEF e
      <3>4. entries' \in [1..MaxEntries -> AnEntry] /\ entries'[n] = e
        BY <1>1, <3>2, <3>3
      <3>5. \A m \in 1..MaxEntries \ {n} : entries'[m] = entries[m]
        BY <1>1, <3>3
      <3> QED
        BY <2>2, <3>2, <3>4, <3>5
    <2> QED
      BY <1>7, <2>1, <2>2
  <1>9. /\ reader' \in [Readers -> AReader]
        /\ \A q \in Readers \ {r} : reader'[q] = reader[q]
    <2>1. /\ Asked("has", purpose, n, epoch, Nothing, s) \in AReader
          /\ Asked("waiting", purpose, n, epoch, s, Nothing) \in AReader
      BY <1>1, NothingType, AskedType DEF CacheIInv
    <2> HIDE DEF Asked
    <2> QED
      BY <1>1, <1>7, <2>1
  <1>10. CacheTypeOK'
    BY <1>1, <1>3, <1>4, <1>8, <1>9, CacheTypes DEF CacheTypeOK, AReader, AnEntry
  <1>11. ASSUME NEW m \in 1..MaxEntries PROVE EntryOK(m)'
    <2>1. CASE m = n
      BY <1>3, <1>4, <1>6, <1>8, <2>1 DEF EntryOK
    <2>2. CASE m # n
      <3>1. EntryOK(m) /\ entries'[m] = entries[m] /\ m # current'
        BY <1>3, <1>8, <2>2 DEF CacheIInv
      <3> QED
        BY <1>4, <3>1 DEF EntryOK
    <2> QED
      BY <2>1, <2>2
  \* Who was waiting waits for the same fetch.
  <1>12. ASSUME NEW x \in AReader, ReaderOK(x) PROVE ReaderOK(x)'
    <2>1. WaitsOK(x) => WaitsOK(x)'
      <3>1. SUFFICES ASSUME WaitsOK(x) PROVE WaitsOK(x)'
        OBVIOUS
      <3>2. x.entry \in 1..MaxEntries /\ entries'[x.entry] = entries[x.entry]
        BY <1>1, <1>8, <3>1 DEF WaitsOK
      <3> QED
        BY <1>1, <1>4, <3>1, <3>2 DEF WaitsOK
    <2> QED
      BY <1>3, <1>12, <2>1 DEF ReaderOK, HasOK, RefusedOK
  <1>13. ReaderOK(reader[r])'
    <2>1. CASE Fresh(s) /\ ~Forced(purpose) /\ reader'[r] = Asked("has", purpose, n, epoch, Nothing, s)
      <3>1. s.fetchedAt \in Nat /\ s.fetchedAt + Ttl > now /\ s.begun = cleared
        BY <1>6, <2>1 DEF Fresh, Snapshots
      <3>2. /\ reader'[r].at = "has" /\ reader'[r].for = purpose /\ reader'[r].got = s
            /\ reader'[r].since = now /\ reader'[r].epoch = epoch
        BY <2>1 DEF Asked
      <3>3. ~Forced(reader'[r].for)
        BY <2>1, <3>2
      <3>4. s.fetchedAt + StaleMax >= now /\ s.begun >= epoch
        BY <1>1, <3>1, Bounds
      <3>5. HasOK(reader[r])'
        BY <3>1, <3>2, <3>3, <3>4 DEF HasOK, Forced
      <3> QED
        BY <1>1, <1>3, <3>2, <3>5 DEF ReaderOK
    <2>2. CASE /\ reader'[r] = Asked("waiting", purpose, n, epoch, s, Nothing)
               /\ entries' = IF entries[n].fetch.open THEN entries
                             ELSE [entries EXCEPT ![n].fetch = [open |-> TRUE, begun |-> cleared]]
      <3>1. entries'[n].fetch.open
        BY <1>1, <2>2 DEF AnEntry
      <3>2. /\ reader'[r].at = "waiting" /\ reader'[r].entry = n /\ reader'[r].old = s
            /\ reader'[r].since = now /\ reader'[r].epoch = epoch /\ reader'[r].stale = FALSE
        BY <2>2 DEF Asked
      <3>3. WaitsOK(reader[r])'
        BY <1>1, <1>4, <1>6, <1>8, <3>1, <3>2 DEF WaitsOK
      <3> QED
        BY <1>1, <1>3, <3>2, <3>3 DEF ReaderOK
    <2> HIDE DEF Asked
    <2> QED
      BY <1>1, <1>7, <2>1, <2>2
  <1>14. ASSUME NEW q \in Readers PROVE ReaderOK(reader[q])'
    <2>1. CASE q = r
      BY <1>13, <2>1
    <2>2. CASE q # r
      <3>1. reader'[q] = reader[q] /\ reader[q] \in AReader /\ ReaderOK(reader[q])
        BY <1>1, <1>9, <2>2 DEF CacheIInv
      <3> QED
        BY <1>12, <3>1
    <2> QED
      BY <2>1, <2>2
  <1> QED
    BY <1>10, <1>11, <1>14 DEF CacheIInv

\* The end of a fetch changes its entry, and who waited for it waits no more.
LEMMA FetchEndsHolds ==
  ASSUME CacheIInv, NEW n \in 1..made, UNCHANGED <<now, made, current, cleared>>,
         entries' \in [1..MaxEntries -> AnEntry], EntryOK(n)',
         \A m \in 1..MaxEntries \ {n} : entries'[m] = entries[m],
         reader' \in [Readers -> AReader],
         \A q \in Readers \ Waiting(n) : reader'[q] = reader[q],
         \A q \in Waiting(n) : ReaderOK(reader[q])'
  PROVE  CacheIInv'
  <1>1. /\ now \in 1..MaxNow /\ cleared \in 0..MaxEntries
        /\ current \in 0..made /\ made \in 0..MaxEntries
        /\ reader \in [Readers -> AReader]
    BY CacheTypes, Bounds DEF CacheIInv
  <1>2. CacheTypeOK'
    BY <1>1, CacheTypes DEF CacheTypeOK, AReader, AnEntry
  <1>3. ASSUME NEW m \in 1..MaxEntries, m # n PROVE EntryOK(m)'
    BY <1>3 DEF CacheIInv, EntryOK
  <1>4. ASSUME NEW q \in Readers, q \notin Waiting(n) PROVE ReaderOK(reader[q])'
    <2>1. reader'[q] = reader[q] /\ ReaderOK(reader[q])
      BY <1>4 DEF CacheIInv
    <2>2. reader[q].at = "waiting" => WaitsOK(reader[q])'
      <3>1. SUFFICES ASSUME reader[q].at = "waiting" PROVE WaitsOK(reader[q])'
        OBVIOUS
      <3>2. WaitsOK(reader[q]) /\ reader[q].entry # n
        BY <1>4, <2>1, <3>1 DEF ReaderOK, Waiting
      <3>3. reader[q].entry \in 1..MaxEntries
        BY <1>1, <3>2, Bounds DEF WaitsOK
      <3>4. entries'[reader[q].entry] = entries[reader[q].entry]
        BY <3>2, <3>3
      <3> QED
        BY <2>1, <3>2, <3>4 DEF WaitsOK
    <2> QED
      BY <2>1, <2>2 DEF ReaderOK, HasOK, RefusedOK
  <1>5. \A q \in Readers : ReaderOK(reader[q])'
    BY <1>4
  <1>6. \A m \in 1..MaxEntries : EntryOK(m)'
    BY <1>3
  <1> QED
    BY <1>2, <1>5, <1>6 DEF CacheIInv

LEMMA FetchSucceedsHolds ==
  ASSUME CacheIInv, NEW n \in 1..made, NEW supports \in BOOLEAN, FetchSucceeds(n, supports)
  PROVE  CacheIInv'
  <1>1. /\ now \in 1..MaxNow /\ cleared \in 0..MaxEntries
        /\ current \in 0..made /\ made \in 0..MaxEntries
        /\ entries \in [1..MaxEntries -> AnEntry] /\ reader \in [Readers -> AReader]
        /\ n \in 1..MaxEntries /\ EntryOK(n)
    BY CacheTypes, Bounds DEF CacheIInv
  <1>10. ~(n > made)
    <2>1. made \in Nat
      BY <1>1, Bounds
    <2> QED
      BY <2>1
  <1>2. PICK s \in Snapshots : s = [fetchedAt |-> now, begun |-> entries[n].fetch.begun, supports |-> supports]
    <2> DEFINE t == [fetchedAt |-> now, begun |-> entries[n].fetch.begun, supports |-> supports]
    <2>1. entries[n].fetch.begun \in 0..MaxEntries
      BY <1>1 DEF AnEntry
    <2>2. now \in 0..MaxNow
      BY <1>1, Bounds
    <2>3. t \in Snapshots
      BY <2>1, <2>2 DEF Snapshots
    <2> QED
      BY <2>3
  <1>3. /\ entries[n].fetch.open
        /\ entries' = [[entries EXCEPT ![n].fetch = NoFetch] EXCEPT ![n].snapshot = s]
        /\ reader' = [r \in Readers |-> IF r \in Waiting(n)
                                        THEN [reader[r] EXCEPT !.at = "has", !.got = s, !.old = Nothing]
                                        ELSE reader[r]]
        /\ UNCHANGED <<now, made, current, cleared>>
    BY <1>2 DEF FetchSucceeds, FetchedAt, Target
  <1>4. /\ entries' \in [1..MaxEntries -> AnEntry]
        /\ \A m \in 1..MaxEntries \ {n} : entries'[m] = entries[m]
        /\ entries'[n].snapshot = s /\ entries'[n].fetch = NoFetch
    BY <1>1, <1>3, NothingType DEF AnEntry
  <1>5. EntryOK(n)'
    <2>1. n = current => s.begun = cleared
      BY <1>1, <1>2, <1>3 DEF EntryOK
    <2>2. made' = made /\ ~(n > made)
      BY <1>3, <1>10
    <2> QED
      BY <1>3, <1>4, <2>1, <2>2, NothingType DEF EntryOK
  <1>6. ASSUME NEW q \in Waiting(n)
        PROVE  reader'[q] \in AReader /\ ReaderOK(reader[q])'
    <2>1. q \in Readers /\ reader[q] \in AReader /\ reader[q].at = "waiting" /\ reader[q].entry = n
      BY <1>1 DEF Waiting
    <2>2. reader'[q] = [reader[q] EXCEPT !.at = "has", !.got = s, !.old = Nothing]
      BY <1>3, <2>1
    <2>3. /\ reader'[q] \in AReader
          /\ reader'[q].at = "has" /\ reader'[q].got = s /\ reader'[q].stale = reader[q].stale
          /\ reader'[q].since = reader[q].since /\ reader'[q].epoch = reader[q].epoch
      <3> DEFINE x == reader[q]
      <3>1. x \in AReader /\ Nothing \in Snapshots
        BY <2>1, NothingType
      <3>2. [x EXCEPT !.at = "has", !.got = s, !.old = Nothing] \in AReader
        BY <3>1 DEF AReader
      <3>3. reader'[q] = [x EXCEPT !.at = "has", !.got = s, !.old = Nothing]
        BY <2>2
      <3> HIDE DEF x
      <3>4. /\ reader'[q].at = "has" /\ reader'[q].got = s /\ reader'[q].stale = x.stale
            /\ reader'[q].since = x.since /\ reader'[q].epoch = x.epoch
        BY <3>1, <3>3 DEF AReader
      <3> QED
        BY <3>2, <3>3, <3>4 DEF x
    <2>4. ReaderOK(reader[q]) /\ WaitsOK(reader[q])
      BY <2>1 DEF CacheIInv, ReaderOK
    <2>5. s.fetchedAt = now /\ s.begun >= reader[q].epoch /\ reader[q].since <= now
      BY <1>2, <2>1, <2>4 DEF WaitsOK, ReaderOK
    <2>6. reader[q].since \in Nat
      BY <1>1, <2>1 DEF AReader
    <2>7. HasOK(reader[q])'
      <3>1. Ttl > 0
        BY CacheAssumption, Bounds
      <3> QED
        BY <1>1, <2>3, <2>5, <2>6, <3>1, Bounds DEF HasOK
    <2> QED
      BY <1>3, <2>3, <2>4, <2>7 DEF ReaderOK
  <1>7. /\ reader' \in [Readers -> AReader]
        /\ \A q \in Readers \ Waiting(n) : reader'[q] = reader[q]
    BY <1>1, <1>3, <1>6
  <1> QED
    BY <1>3, <1>4, <1>5, <1>6, <1>7, FetchEndsHolds

LEMMA FetchFailsHolds ==
  ASSUME CacheIInv, NEW n \in 1..made, NEW denied \in BOOLEAN, FetchFails(n, denied)
  PROVE  CacheIInv'
  <1>1. /\ now \in 1..MaxNow /\ cleared \in 0..MaxEntries
        /\ current \in 0..made /\ made \in 0..MaxEntries
        /\ entries \in [1..MaxEntries -> AnEntry] /\ reader \in [Readers -> AReader]
        /\ n \in 1..MaxEntries /\ EntryOK(n) /\ CacheTypeOK
    BY CacheTypes, Bounds DEF CacheIInv
  <1>10. ~(n > made)
    <2>1. made \in Nat
      BY <1>1, Bounds
    <2> QED
      BY <2>1
  <1>2. /\ entries' = [entries EXCEPT ![n].fetch = NoFetch]
        /\ UNCHANGED <<now, made, current, cleared>>
        /\ \A q \in Readers :
             reader'[q] = IF q \notin Waiting(n) THEN reader[q]
                          ELSE IF ~denied /\ AllowsStale(reader[q].for) /\ StillUsable(q)
                          THEN [reader[q] EXCEPT !.at = "has", !.got = reader[q].old, !.stale = TRUE]
                          ELSE Away
        /\ DOMAIN reader' = Readers /\ reader' = [q \in Readers |-> reader'[q]]
    BY DEF FetchFails
  <1>3. /\ entries' \in [1..MaxEntries -> AnEntry]
        /\ \A m \in 1..MaxEntries \ {n} : entries'[m] = entries[m]
        /\ entries'[n].snapshot = entries[n].snapshot /\ entries'[n].fetch = NoFetch
    BY <1>1, <1>2, NothingType DEF AnEntry
  <1>4. EntryOK(n)'
    <2>1. made' = made /\ ~(n > made)
      BY <1>2, <1>10
    <2> QED
      BY <1>1, <1>2, <1>3, <2>1, NothingType DEF EntryOK
  <1>5. ASSUME NEW q \in Waiting(n)
        PROVE  reader'[q] \in AReader /\ ReaderOK(reader[q])'
    <2>1. /\ q \in Readers /\ reader[q] \in AReader /\ reader[q].at = "waiting"
          /\ ReaderOK(reader[q]) /\ WaitsOK(reader[q])
      BY <1>1 DEF Waiting, CacheIInv, ReaderOK
    <2>2. CASE reader'[q] = Away
      <3>1. Away.at = "away" /\ Away.epoch = 0 /\ Away.since = 0
        BY DEF Away
      <3>2. 0 <= cleared' /\ 0 <= now'
        <4>1. cleared' = cleared /\ now' = now
          BY <1>2
        <4>2. 0 <= cleared /\ 0 <= now
          BY <1>1, Bounds
        <4> QED
          BY <4>1, <4>2
      <3> QED
        BY <2>2, <3>1, <3>2, AwayType DEF ReaderOK
    <2>3. CASE /\ AllowsStale(reader[q].for) /\ StillUsable(q)
               /\ reader'[q] = [reader[q] EXCEPT !.at = "has", !.got = reader[q].old, !.stale = TRUE]
      <3>1. /\ reader'[q] \in AReader
            /\ reader'[q].at = "has" /\ reader'[q].got = reader[q].old /\ reader'[q].stale
            /\ reader'[q].since = reader[q].since /\ reader'[q].epoch = reader[q].epoch
            /\ reader'[q].for = reader[q].for
        BY <2>1, <2>3 DEF AReader
      <3>2. /\ reader[q].old.fetchedAt \in Nat /\ reader[q].since \in Nat
            /\ reader[q].old.fetchedAt > 0 /\ reader[q].since - reader[q].old.fetchedAt <= StaleMax
        BY <1>1, <2>1, <2>3 DEF AReader, Snapshots, StillUsable
      <3>3. ~Forced(reader[q].for)
        BY <2>3 DEF AllowsStale, Forced
      <3>4. HasOK(reader[q])'
        BY <2>1, <3>1, <3>2, <3>3, Bounds DEF HasOK, WaitsOK, Forced
      <3> QED
        BY <1>2, <2>1, <3>1, <3>4 DEF ReaderOK
    <2> QED
      BY <1>2, <2>1, <2>2, <2>3
  <1>6. /\ reader' \in [Readers -> AReader]
        /\ \A q \in Readers \ Waiting(n) : reader'[q] = reader[q]
    <2>1. \A q \in Readers : reader'[q] \in AReader
      BY <1>1, <1>2, <1>5
    <2> QED
      BY <1>2, <2>1
  <1> QED
    BY <1>2, <1>3, <1>4, <1>5, <1>6, FetchEndsHolds

\* A request that goes on without the cache.
LEMMA ReaderGoesHolds ==
  ASSUME CacheIInv, NEW r \in Readers, NEW x \in AReader, reader' = [reader EXCEPT ![r] = x],
         UNCHANGED <<now, entries, made, current, cleared>>, ReaderOK(x)
  PROVE  CacheIInv'
  <1>1. /\ now \in 1..MaxNow /\ cleared \in 0..MaxEntries
        /\ current \in 0..made /\ made \in 0..MaxEntries
        /\ entries \in [1..MaxEntries -> AnEntry] /\ reader \in [Readers -> AReader]
    BY CacheTypes, Bounds DEF CacheIInv
  <1>2. reader' \in [Readers -> AReader]
    BY <1>1
  <1>3. CacheTypeOK'
    BY <1>1, <1>2, CacheTypes DEF CacheTypeOK, AReader, AnEntry
  <1>4. ASSUME NEW y, ReaderOK(y) PROVE ReaderOK(y)'
    BY <1>4 DEF ReaderOK, WaitsOK, HasOK, RefusedOK
  <1>5. \A q \in Readers : ReaderOK(reader[q])'
    <2>1. \A q \in Readers : ReaderOK(reader'[q])
      BY <1>1 DEF CacheIInv
    <2> QED
      BY <2>1 DEF ReaderOK, WaitsOK, HasOK, RefusedOK
  <1>6. \A m \in 1..MaxEntries : EntryOK(m)'
    BY DEF CacheIInv, EntryOK
  <1> QED
    BY <1>3, <1>5, <1>6 DEF CacheIInv

-----------------------------------------------------------------------------

\* Every step keeps the invariant.
LEMMA CacheNextHolds == CacheIInv /\ [CacheNext]_cacheVars => CacheIInv'
  <1> SUFFICES ASSUME CacheIInv, [CacheNext]_cacheVars PROVE CacheIInv'
    OBVIOUS
  <1>1. /\ now \in 1..MaxNow /\ cleared \in 0..MaxEntries
        /\ current \in 0..made /\ made \in 0..MaxEntries
        /\ entries \in [1..MaxEntries -> AnEntry] /\ reader \in [Readers -> AReader]
        /\ CacheTypeOK
    BY CacheTypes, Bounds DEF CacheIInv
  <1>2. CASE CacheTick
    <2>1. /\ now' = now + 1 /\ now' \in 1..MaxNow /\ UNCHANGED <<entries, made, current, cleared, reader>>
      BY <1>1, <1>2, CacheAssumption DEF CacheTick
    <2>2. CacheTypeOK'
      BY <1>1, <2>1 DEF CacheTypeOK
    <2>3. \A m \in 1..MaxEntries : EntryOK(m)'
      BY <2>1 DEF CacheIInv, EntryOK
    <2>4. ASSUME NEW q \in Readers PROVE ReaderOK(reader[q])'
      <3>1. ReaderOK(reader[q]) /\ reader'[q] = reader[q] /\ reader[q].since \in Nat
        BY <1>1, <2>1 DEF CacheIInv, AReader
      <3> QED
        BY <1>1, <2>1, <3>1 DEF ReaderOK, WaitsOK, HasOK, RefusedOK
    <2> QED
      BY <2>2, <2>3, <2>4 DEF CacheIInv
  <1>3. CASE ClearModelsCache
    <2>1. /\ current' = 0 /\ cleared' = cleared + 1 /\ cleared' \in 0..MaxEntries
          /\ UNCHANGED <<now, entries, made, reader>>
      BY <1>1, <1>3, Bounds DEF ClearModelsCache
    <2>2. CacheTypeOK'
      BY <1>1, <2>1 DEF CacheTypeOK
    <2>3. \A m \in 1..MaxEntries : EntryOK(m)'
      BY <2>1 DEF CacheIInv, EntryOK
    <2>4. ASSUME NEW q \in Readers PROVE ReaderOK(reader[q])'
      <3>1. ReaderOK(reader[q]) /\ reader'[q] = reader[q] /\ reader[q].epoch \in Nat
        BY <1>1, <2>1 DEF CacheIInv, AReader
      <3> QED
        BY <1>1, <2>1, <3>1 DEF ReaderOK, WaitsOK, HasOK, RefusedOK
    <2> QED
      BY <2>2, <2>3, <2>4 DEF CacheIInv
  <1>4. ASSUME NEW r \in Readers, NEW purpose \in {"list", "bypass", "path"}, Arrive(r, purpose)
        PROVE  CacheIInv'
    BY <1>1, <1>4, AskHolds DEF Arrive
  <1>5. ASSUME NEW r \in Readers, LookAgain(r) PROVE CacheIInv'
    <2>1. reader[r].epoch \in 0..cleared
      BY <1>1 DEF CacheIInv, ReaderOK, AReader
    <2> QED
      BY <1>5, <2>1, AskHolds DEF LookAgain
  <1>6. ASSUME NEW r \in Readers, Serve(r) \/ Leave(r) PROVE CacheIInv'
    BY <1>1, <1>6, AwayOK, AwayType, ReaderGoesHolds DEF Serve, Leave
  <1>7. ASSUME NEW r \in Readers, Refuse(r) PROVE CacheIInv'
    <2>1. PICK since : since = IF reader[r].for = "path" THEN now ELSE reader[r].since
      OBVIOUS
    <2>2. reader[r] \in AReader /\ reader[r].at = "has" /\ ReaderOK(reader[r])
      BY <1>1, <1>7 DEF Refuse, Unsupported, CacheIInv
    <2>3. since \in 0..MaxNow /\ since <= now
      BY <1>1, <2>1, <2>2 DEF AReader, ReaderOK
    <2>4. PICK x : x = [reader[r] EXCEPT !.at = "refused", !.since = since]
      OBVIOUS
    <2>5. /\ x \in AReader /\ x.at = "refused" /\ x.since = since /\ x.got = reader[r].got
          /\ x.epoch = reader[r].epoch
      BY <2>2, <2>3, <2>4 DEF AReader
    <2>6. reader[r].got.fetchedAt + Recheck >= since
      <3>1. reader[r].got.fetchedAt \in Nat /\ reader[r].since \in Nat
        BY <2>2 DEF AReader, Snapshots
      <3>2. CASE reader[r].for = "path"
        <4>1. ~(now - reader[r].got.fetchedAt > Recheck) /\ since = now
          BY <1>7, <2>1, <3>2 DEF Refuse, TooOld
        <4> QED
          BY <1>1, <3>1, <4>1, Bounds
      <3>3. CASE reader[r].for # "path"
        <4>1. Forced(reader[r].for)
          BY <1>7, <3>3 DEF Refuse, Unsupported, Forced
        <4>2. reader[r].got.fetchedAt >= reader[r].since
          BY <2>2, <4>1 DEF ReaderOK, HasOK
        <4> QED
          BY <2>1, <3>1, <3>3, <4>2, Bounds
      <3> QED
        BY <3>2, <3>3
    <2>7. ReaderOK(x)
      BY <2>2, <2>3, <2>5, <2>6 DEF ReaderOK, HasOK, RefusedOK
    <2>8. reader' = [reader EXCEPT ![r] = x] /\ UNCHANGED <<now, entries, made, current, cleared>>
      BY <1>1, <1>7, <2>1, <2>4 DEF Refuse
    <2> QED
      BY <2>5, <2>7, <2>8, ReaderGoesHolds
  <1>8. ASSUME NEW n \in 1..made, NEW b \in BOOLEAN, FetchSucceeds(n, b) \/ FetchFails(n, b)
        PROVE  CacheIInv'
    BY <1>8, FetchSucceedsHolds, FetchFailsHolds
  <1>9. CASE UNCHANGED cacheVars
    <2>1. CacheTypeOK'
      BY <1>1, <1>9 DEF cacheVars, CacheTypeOK
    <2> QED
      BY <1>9, <2>1 DEF cacheVars, CacheIInv, EntryOK, ReaderOK, WaitsOK, HasOK, RefusedOK
  <1> QED
    BY <1>2, <1>3, <1>4, <1>5, <1>6, <1>7, <1>8, <1>9 DEF CacheNext

-----------------------------------------------------------------------------

\* The type invariant of the cache, and what its entries and requests rest on.
THEOREM CacheInvariance == CacheSpec => []CacheIInv
  <1>1. CacheInit => CacheIInv
    BY CacheInitHolds
  <1>2. CacheIInv /\ [CacheNext]_cacheVars => CacheIInv'
    BY CacheNextHolds
  <1> QED
    BY <1>1, <1>2, PTL DEF CacheSpec

\* For any number of requests, entries and times to live: no request uses a list from before
\* the cache was cleared, and none is served or refused by one older than promised.
THEOREM AnswersCurrent == CacheSpec => []AnswersAreCurrent
  <1>1. CacheIInv => AnswersAreCurrent
    BY DEF CacheIInv, ReaderOK, HasOK, RefusedOK, AnswersAreCurrent, ClearedIsForgotten, AnswersAreRecent
  <1> QED
    BY <1>1, CacheInvariance, PTL
=============================================================================
