---------------------------- MODULE InitConfigForm ----------------------------
(***************************************************************************)
(* The setup configuration on the settings page (SystemTab, InitConfig-    *)
(* Summary and InitConfigEditor of web/src/app/settings/SettingsClient.tsx)*)
(* and its handlers (internal/server/handlers_setup.go, configgen.go): a   *)
(* summary, a draft that is edited, and saves of the draft. The            *)
(* subscriptions travel as one text of words, name|url, and are told apart *)
(* by a row id in the editor; of the other fields one value stands for all.*)
(***************************************************************************)
EXTENDS Naturals, Sequences, FiniteSets, SequencesExt

CONSTANTS
  MaxRows,    \* bound on the subscription rows of the draft
  FormSaves   \* saves in flight

ASSUME RowsAssumption == MaxRows \in Nat \ {0}

VARIABLES
  setupcfg,   \* the server's configuration
  form,       \* the summary and the draft
  formload,   \* the read when the page is mounted
  formsaves,  \* saves in flight
  meant,      \* history: what the user typed, row by row
  shuffled,   \* history: a row was removed; and one was added after that
  rushed      \* history: saves overlapped, or came before the read answered

fvars == <<setupcfg, form, formload, formsaves, meant, shuffled, rushed>>

\* A row without a url, one with a url, and one with a url and a name of two
\* words; word: the first of these, which is no url.
SubTexts == {"blank", "u", "spaced"}
SubRow == [id : 1..MaxRows, text : SubTexts]
Draft == [rows : UNION {[1..n -> SubRow] : n \in 0..MaxRows}, rest : {0, 1}]
Stored == [words : Seq({"word", "u"}), rest : {0, 1}]
NoDraft == [rows |-> <<>>, rest |-> 0]
FormSave == [at : {"idle", "sent", "ok", "refused"}, draft : Draft]
NoFormSave == [at |-> "idle", draft |-> NoDraft]

FormTypeOK ==
  /\ setupcfg \in Stored /\ formload \in {"out", "failed", "done"}
  /\ form.editing \in BOOLEAN /\ form.shown \in Draft /\ form.draft \in Draft
  /\ formsaves \in [FormSaves -> FormSave]
  /\ meant \in Seq(SubTexts) /\ shuffled \in {"no", "removed", "reused"} /\ rushed \in BOOLEAN

-----------------------------------------------------------------------------
(* The conversions.                                                        *)

TextsOf(rows) == [i \in DOMAIN rows |-> rows[i].text]
\* The texts of the rows that are not blank.
GivenTexts(rows) ==
  FlattenSeq([i \in DOMAIN rows |-> IF rows[i].text = "blank" THEN <<>> ELSE <<rows[i].text>>])

\* serializeSubscriptions; the text is split at spaces again by whoever reads it.
WordsOf(row) ==
  CASE row.text = "blank" -> <<>> [] row.text = "u" -> <<"u">> [] row.text = "spaced" -> <<"word", "u">>
Serialized(draft) == [words |-> FlattenSeq([i \in DOMAIN draft.rows |-> WordsOf(draft.rows[i])]),
                      rest |-> draft.rest]

\* parseSubscriptionValue.
Parsed(stored) ==
  [rows |-> [i \in DOMAIN stored.words |-> [id |-> i, text |-> stored.words[i]]],
   rest |-> stored.rest]

\* normalizeSubscriptionURLString: every word is a url or a name and a url.
Accepts(stored) == \A i \in DOMAIN stored.words : stored.words[i] # "word"

FormInit ==
  /\ setupcfg \in { [words |-> w, rest |-> 0] : w \in { <<>>, <<"u">> } }
  /\ form = [editing |-> FALSE, shown |-> NoDraft, draft |-> NoDraft]
  /\ formload = "out" /\ formsaves = [p \in FormSaves |-> NoFormSave]
  /\ meant = <<>> /\ shuffled = "no" /\ rushed = FALSE

-----------------------------------------------------------------------------
(* The read on mount: a configuration that arrives late replaces the draft *)
(* as well; one that does not arrive leaves the defaults.                  *)

FormLoads ==
  /\ formload = "out" /\ formload' = "done"
  /\ form' = [form EXCEPT !.shown = Parsed(setupcfg), !.draft = IF form.editing THEN Parsed(setupcfg) ELSE @]
  /\ rushed' = (rushed \/ form.editing)
  /\ UNCHANGED <<setupcfg, formsaves, meant, shuffled>>

FormLoadFails ==
  /\ formload = "out" /\ formload' = "failed"
  /\ UNCHANGED <<setupcfg, form, formsaves, meant, shuffled, rushed>>

-----------------------------------------------------------------------------
(* The editor.                                                             *)

Edits(draft, urls, how) ==
  /\ form.editing /\ form' = [form EXCEPT !.draft = draft]
  /\ meant' = IF rushed \/ how = "reused" THEN <<>> ELSE urls
  /\ shuffled' = how
  /\ UNCHANGED <<setupcfg, formload, formsaves, rushed>>

OpenEditor ==
  /\ ~form.editing
  /\ form' = [form EXCEPT !.editing = TRUE, !.draft = form.shown]
  /\ meant' = IF rushed THEN <<>> ELSE TextsOf(form.shown.rows)
  /\ shuffled' = IF \A i \in DOMAIN form.shown.rows : form.shown.rows[i].id = i THEN "no" ELSE "reused"
  /\ UNCHANGED <<setupcfg, formload, formsaves, rushed>>

\* A draft that is not being edited is not seen again: it is left empty here.
CloseEditor(shown) ==
  /\ form' = [editing |-> FALSE, shown |-> shown, draft |-> NoDraft]
  /\ meant' = <<>> /\ shuffled' = "no"

CancelEdit ==
  /\ form.editing /\ CloseEditor(form.shown)
  /\ UNCHANGED <<setupcfg, formload, formsaves, rushed>>

\* Mutant: rows are numbered from the last one's number.
CountId(rows) == IF rows = <<>> THEN 1 ELSE Len(rows)
\* A new row is numbered by how many rows there are.
SubId(rows) == Len(rows) + 1

AddSub ==
  /\ Len(form.draft.rows) < MaxRows
  /\ Edits([form.draft EXCEPT !.rows = Append(@, [id |-> SubId(@), text |-> "blank"])],
           Append(meant, "blank"), IF shuffled = "no" THEN "no" ELSE "reused")

\* The rows with another id, in their order.
RowsWithout(rows, id) ==
  LET left == { j \in DOMAIN rows : rows[j].id # id }
  IN [k \in 1..Cardinality(left) |->
        rows[CHOOSE j \in left : Cardinality({ m \in left : m <= j }) = k]]

\* Rows are removed and changed by their id.
RemoveSub(i) ==
  LET rows == form.draft.rows
  IN Edits([form.draft EXCEPT !.rows = RowsWithout(rows, rows[i].id)],
           IF i \in DOMAIN meant THEN RemoveAt(meant, i) ELSE meant,
           IF shuffled = "no" THEN "removed" ELSE shuffled)
TypeSub(i, text) ==
  LET rows == form.draft.rows
  IN Edits([form.draft EXCEPT !.rows = [j \in DOMAIN rows |->
              IF rows[j].id = rows[i].id THEN [rows[j] EXCEPT !.text = text] ELSE rows[j]]],
           IF i \in DOMAIN meant THEN [meant EXCEPT ![i] = text] ELSE meant, shuffled)

\* The network card, the core, DNS, IPv6, the download proxies, and the nodes.
TypeOther(v) == v # form.draft.rest /\ Edits([form.draft EXCEPT !.rest = v], meant, shuffled)

-----------------------------------------------------------------------------
(* Saving. The button is not held back while a save is out; what was sent  *)
(* is what the summary shows afterwards, and the editor is closed.         *)

FormQuiet == \A p \in FormSaves : formsaves[p].at = "idle"

SaveDraft(p) ==
  /\ form.editing
  /\ formsaves[p].at = "idle" /\ p = CHOOSE q \in FormSaves : formsaves[q].at = "idle"
  /\ formsaves' = [formsaves EXCEPT ![p] = [at |-> "sent", draft |-> form.draft]]
  /\ rushed' = (rushed \/ formload = "out" \/ ~FormQuiet)
  /\ UNCHANGED <<setupcfg, form, formload, meant, shuffled>>

\* The configuration is checked and stored, or refused; a failure after it was
\* stored (the generated files) is answered as an error.
ServeDraft(p) ==
  /\ formsaves[p].at = "sent"
  /\ \/ /\ Accepts(Serialized(formsaves[p].draft)) /\ setupcfg' = Serialized(formsaves[p].draft)
        /\ \/ formsaves' = [formsaves EXCEPT ![p].at = "ok"] /\ UNCHANGED rushed
           \/ formsaves' = [formsaves EXCEPT ![p] = [at |-> "refused", draft |-> NoDraft]] /\ rushed' = TRUE
     \/ formsaves' = [formsaves EXCEPT ![p] = [at |-> "refused", draft |-> NoDraft]] /\ UNCHANGED <<setupcfg, rushed>>
  /\ UNCHANGED <<form, formload, meant, shuffled>>

DraftSaved(p) ==
  /\ formsaves[p].at = "ok"
  /\ CloseEditor(formsaves[p].draft)
  /\ formsaves' = [formsaves EXCEPT ![p] = NoFormSave]
  /\ formload' = IF formload = "failed" THEN "done" ELSE formload
  /\ UNCHANGED <<setupcfg, rushed>>

DraftRefused(p) ==
  /\ formsaves[p].at = "refused"
  /\ formsaves' = [formsaves EXCEPT ![p] = NoFormSave]
  /\ UNCHANGED <<setupcfg, form, formload, meant, shuffled, rushed>>

FormNext ==
  \/ FormLoads \/ FormLoadFails \/ OpenEditor \/ CancelEdit \/ AddSub
  \/ \E i \in DOMAIN form.draft.rows :
       RemoveSub(i) \/ \E text \in SubTexts : TypeSub(i, text)
  \/ \E v \in {0, 1} : TypeOther(v)
  \/ \E p \in FormSaves : SaveDraft(p) \/ ServeDraft(p) \/ DraftSaved(p) \/ DraftRefused(p)

FormSpec == FormInit /\ [][FormNext]_fvars

-----------------------------------------------------------------------------
(* Properties.                                                             *)

\* An edit of a subscription changes its own row alone, although a row is
\* found by an id made from a count, as long as no row is added after one was
\* removed (addSub, SettingsClient.tsx:769).
RowsEditAlone == (form.editing /\ ~rushed /\ shuffled # "reused") => TextsOf(form.draft.rows) = meant

\* With no save out the summary shows the subscriptions and the fields that
\* are stored: the page's text, the server's reading of it and the page's own
\* reading of it on the next visit agree, because the server refuses the names
\* that would be split; saves that overlap, that come before the read, or
\* that fail after they stored are left out.
SummaryIsStored ==
  (~rushed /\ FormQuiet /\ formload = "done") =>
    /\ GivenTexts(form.shown.rows) = TextsOf(Parsed(setupcfg).rows)
    /\ form.shown.rest = setupcfg.rest
===============================================================================
