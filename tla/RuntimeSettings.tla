-------------------------- MODULE RuntimeSettings --------------------------
(***************************************************************************)
(* The runtime settings of a service (login, sso): the row with its        *)
(* version, the copy the process keeps of it, and the cards of the console *)
(* that load it, let an operator edit it and save all of it at once.  A    *)
(* card is mounted once: the one that is opened after it is another card.  *)
(* Requests and answers may be lost; a lost request may have been obeyed.  *)
(***************************************************************************)
EXTENDS Naturals

CONSTANTS
  Cards,         \* the settings cards that are mounted, in any browser
  Fields,        \* the settings in the row
  Values,        \* what may be written in the field of a setting
  Accepted,      \* the values that are stored
  Normal,        \* what the sso service stores for a value (normalizeUserPrefix)
  Defaults,      \* the row of the first migration
  MaxVersion     \* bound on the saves that succeed

ASSUME SettingsAssumption ==
  /\ Accepted \subseteq Values
  /\ Normal \in [Values -> Values]
  /\ Defaults \in [Fields -> Accepted]
  /\ MaxVersion \in Nat \ {0}

VARIABLES
  service,    \* "login" or "sso"
  row,        \* the row in the database
  snapshot,   \* the copy of the process; version 0: none yet
  card,       \* what each card holds
  wire        \* the request of each card that is under way, or its answer

settingsVars == <<service, row, snapshot, card, wire>>

Row(vs, n) == [values |-> vs, version |-> n]
NoRow      == Row(Defaults, 0)
Unmounted(phase) == [phase |-> phase, base |-> NoRow, draft |-> Defaults, edited |-> {}]
NoMessage  == [kind |-> "none"]
Got(r)     == [kind |-> "row", row |-> r]
Refused(w) == [kind |-> w]
\* touched: the settings the operator changed since the card loaded; it is not sent.
Patch(n, ch, t) == [kind |-> "patch", expected |-> n, changes |-> ch, touched |-> t]

Rows     == [values : [Fields -> Accepted], version : 0..MaxVersion]
Messages ==
  {NoMessage, Refused("get"), Refused("conflict"), Refused("invalid"), Refused("lost")}
    \union [kind : {"row"}, row : Rows]
    \union [kind : {"patch"}, expected : 0..MaxVersion, changes : [Fields -> Values],
            touched : SUBSET Fields]
Phases   == {"unopened", "loading", "blank", "ready", "saving", "reloading", "gone"}

SettingsTypeOK ==
  /\ service \in {"login", "sso"}
  /\ row \in Rows /\ row.version > 0
  /\ snapshot \in Rows
  /\ card \in [Cards -> [phase : Phases, base : Rows, draft : [Fields -> Values],
                         edited : SUBSET Fields]]
  /\ wire \in [Cards -> Messages]

SettingsInit ==
  /\ service \in {"login", "sso"}
  /\ row = Row(Defaults, 1)
  /\ snapshot = NoRow
  /\ card = [c \in Cards |-> Unmounted("unopened")]
  /\ wire = [c \in Cards |-> NoMessage]

-----------------------------------------------------------------------------
(* The service. *)

AsStored(v) == IF service = "sso" THEN Normal[v] ELSE v

Merged(changes) ==
  [k \in Fields |-> AsStored(IF k \in DOMAIN changes THEN changes[k] ELSE row.values[k])]

\* Mutant: the first of the settings is not looked at.
MutantValid(changes) ==
  LET first == CHOOSE j \in Fields : TRUE
  IN \A k \in Fields \ {first} : Merged(changes)[k] \in Accepted

Valid(changes) == \A k \in Fields : Merged(changes)[k] \in Accepted

\* Mutant: any version up to the present one may be changed.
MutantConflicts(n) == n > row.version

\* The login service looks at the values first, the sso service at the version.
Conflicts(n) == n # row.version

Verdict(n, changes) ==
  IF service = "sso"
  THEN IF Conflicts(n) THEN "conflict" ELSE IF Valid(changes) THEN "saved" ELSE "invalid"
  ELSE IF ~Valid(changes) THEN "invalid" ELSE IF Conflicts(n) THEN "conflict" ELSE "saved"

Save(changes) ==
  /\ row' = Row(Merged(changes), row.version + 1)
  /\ snapshot' = row'

\* GET /settings/runtime: the copy, read from the row when there is none.
Current == IF snapshot.version = 0 THEN row ELSE snapshot

ServeGet(c) ==
  /\ wire[c].kind = "get"
  /\ snapshot' = Current
  /\ wire' = [wire EXCEPT ![c] = Got(Current)]
  /\ UNCHANGED <<service, row, card>>

\* PATCH /settings/runtime of a card.
ServePatch(c) ==
  /\ wire[c].kind = "patch"
  /\ LET verdict == Verdict(wire[c].expected, wire[c].changes) IN
       IF verdict = "saved"
       THEN /\ row.version < MaxVersion
            /\ Save(wire[c].changes)
            /\ wire' = [wire EXCEPT ![c] = Got(row')]
       ELSE /\ wire' = [wire EXCEPT ![c] = Refused(verdict)]
            /\ UNCHANGED <<row, snapshot>>
  /\ UNCHANGED <<service, card>>

\* A client of the API that sends the settings it wants changed and no others.
ClientPatch(n, changes) ==
  /\ row.version < MaxVersion
  /\ Verdict(n, changes) = "saved"
  /\ Save(changes)
  /\ UNCHANGED <<service, card, wire>>

\* The process stops and starts again.
SettingsRestart ==
  /\ snapshot' = NoRow
  /\ UNCHANGED <<service, row, card, wire>>

-----------------------------------------------------------------------------
(* The cards. *)

Mounted(c) == card[c].phase \notin {"unopened", "blank", "gone"}
Shown(c)   == Mounted(c) /\ card[c].phase # "loading"

Load(c, phase) ==
  /\ card' = [card EXCEPT ![c].phase = phase]
  /\ wire' = [wire EXCEPT ![c] = Refused("get")]
  /\ UNCHANGED <<service, row, snapshot>>

OpenCard(c) == card[c].phase = "unopened" /\ Load(c, "loading")

\* Another page is shown: what the card asked for goes on, its answer is dropped.
CloseCard(c) ==
  /\ Mounted(c)
  /\ card' = [card EXCEPT ![c] = Unmounted("gone")]
  /\ UNCHANGED <<service, row, snapshot, wire>>

\* The fields are never disabled, the button is while the card saves.
\* Bound: a field is typed into once, which stands for its last value.
Edit(c, k, v) ==
  /\ Shown(c)
  /\ k \notin card[c].edited /\ v # card[c].draft[k]
  /\ card' = [card EXCEPT ![c].draft = [@ EXCEPT ![k] = v],
                          ![c].edited = @ \union {k}]
  /\ UNCHANGED <<service, row, snapshot, wire>>

SaveAndApply(c) ==
  /\ card[c].phase = "ready"
  /\ card' = [card EXCEPT ![c].phase = "saving"]
  /\ wire' = [wire EXCEPT ![c] = Patch(card[c].base.version, card[c].draft, card[c].edited)]
  /\ UNCHANGED <<service, row, snapshot>>

\* setSettings and setDraft: what was typed since the request is gone.
Adopt(c) ==
  /\ Mounted(c)
  /\ wire[c].kind = "row"
  /\ card' = [card EXCEPT ![c] = [phase |-> "ready", base |-> wire[c].row,
                                  draft |-> wire[c].row.values, edited |-> {}]]
  /\ wire' = [wire EXCEPT ![c] = NoMessage]
  /\ UNCHANGED <<service, row, snapshot>>

\* 409: the card loads what is stored now.
Reload(c) == card[c].phase = "saving" /\ wire[c].kind = "conflict" /\ Load(c, "reloading")

\* Any other failure is shown; without a first answer there is no form.
ShowError(c) ==
  /\ Mounted(c)
  /\ wire[c].kind \in {"invalid", "lost"}
  /\ card' = [card EXCEPT ![c].phase = IF @ = "loading" THEN "blank" ELSE "ready"]
  /\ wire' = [wire EXCEPT ![c] = NoMessage]
  /\ UNCHANGED <<service, row, snapshot>>

\* The request does not arrive, or its answer does not.
LoseRequest(c) ==
  /\ wire[c].kind \notin {"none", "lost"}
  /\ wire' = [wire EXCEPT ![c] = Refused("lost")]
  /\ UNCHANGED <<service, row, snapshot, card>>

SettingsNext ==
  \/ SettingsRestart
  \/ \E c \in Cards :
       \/ ServeGet(c) \/ ServePatch(c) \/ OpenCard(c) \/ CloseCard(c) \/ SaveAndApply(c)
       \/ Adopt(c) \/ Reload(c) \/ ShowError(c) \/ LoseRequest(c)
       \/ \E k \in Fields, v \in Values : Edit(c, k, v)
  \/ \E k \in Fields, v \in Values : ClientPatch(row.version, [j \in {k} |-> v])

SettingsSpec == SettingsInit /\ [][SettingsNext]_settingsVars

-----------------------------------------------------------------------------
(* Properties. *)

\* A save from a card changes no setting its operator left alone, whatever others
\* saved since the card was loaded: the whole form is sent with the version it was
\* filled from, and the row is written only while it still has that version.
\* (A setting may take its normal form: what is stored is normalised once more.)
NoLostUpdate ==
  [][\A c \in Cards : wire[c].kind = "patch" /\ wire'[c].kind = "row" =>
       \A k \in Fields \ wire[c].touched : row'.values[k] = AsStored(row.values[k])]_settingsVars

\* The copy the service works with, and answers GET from, is never an old row: every
\* accepted change replaces it in the process that made it.
SnapshotIsStored == snapshot.version > 0 => snapshot = row

=============================================================================
