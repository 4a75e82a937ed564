----------------------------- MODULE MosdnsRules -----------------------------
(***************************************************************************)
(* The rules of MosDNS by category (web/src/app/mosdns/rules/page.tsx, the *)
(* dialogs of web/src/components/rules/RuleDialogs.tsx and the handlers    *)
(* of internal/server/handlers_mosdns.go). A category is selected at once  *)
(* and its list comes later; a reorder sends the whole list of the page,   *)
(* which the server writes into the selected category. A rule is known by  *)
(* the category it was made for; the order within a list is left out.      *)
(***************************************************************************)
EXTENDS Naturals

CONSTANTS
  Cats,        \* categories
  RulesPer,    \* rules made for each category
  RuleReads,   \* loadRules in flight
  RuleWrites   \* writes in flight

ASSUME CatsAssumption == Cats # {} /\ RulesPer \in Nat

Rules == [home : Cats, n : 1..RulesPer]
Of(cat) == { r \in Rules : r.home = cat }
SomeCat == CHOOSE c \in Cats : TRUE

VARIABLES
  filed,    \* the files of the server: category -> rules
  cat,      \* activeCat
  listed,   \* currentRules
  modal,    \* modal and editingRule
  rread,    \* loadRules, in flight
  rwrite,   \* writes in flight
  crossed   \* history: the user did not wait for a list, or one failed

rvars == <<filed, cat, listed, modal, rread, rwrite, crossed>>

Modals == {"none", "add", "import", "clear", "edit"}
RuleRead == [at : {"idle", "sent", "back"}, cat : Cats, got : SUBSET Rules]
NoRuleRead == [at |-> "idle", cat |-> SomeCat, got |-> {}]
\* what is written: rules of the request, which delete and edit name.
RuleWrite == [at : {"idle", "sent", "back"}, what : {"add", "import", "clear", "edit", "delete", "reorder"},
              cat : Cats, rules : SUBSET Rules]
NoRuleWrite == [at |-> "idle", what |-> "add", cat |-> SomeCat, rules |-> {}]

RulesTypeOK ==
  /\ filed \in [Cats -> SUBSET Rules] /\ cat \in Cats /\ listed \in SUBSET Rules
  /\ modal \in Modals
  /\ rread \in [RuleReads -> RuleRead] /\ rwrite \in [RuleWrites -> RuleWrite]
  /\ crossed \in BOOLEAN

ReadingRules == \E l \in RuleReads : rread[l].at # "idle"
WritingRules == \E w \in RuleWrites : rwrite[w].at # "idle"
FreeRuleRead(l) == rread[l].at = "idle" /\ l = CHOOSE x \in RuleReads : rread[x].at = "idle"
LoadRules(l, c) ==
  /\ FreeRuleRead(l)
  /\ rread' = [rread EXCEPT ![l] = [at |-> "sent", cat |-> c, got |-> {}]]

\* The categories are here, the first one is selected and its list is asked for.
RulesInit ==
  /\ filed \in [Cats -> SUBSET Rules] /\ \A c \in Cats : filed[c] \subseteq Of(c)
  /\ cat = SomeCat /\ listed = {} /\ modal = "none"
  /\ rread = [l \in RuleReads |-> IF l = CHOOSE x \in RuleReads : TRUE
                                  THEN [NoRuleRead EXCEPT !.at = "sent"] ELSE NoRuleRead]
  /\ rwrite = [w \in RuleWrites |-> NoRuleWrite]
  /\ crossed = FALSE

-----------------------------------------------------------------------------
(* The list.                                                               *)

\* Mutant: another category does not read its list.
KeepsList(l, c) == UNCHANGED rread
\* The effect on activeCat and activeView; the old list stays meanwhile.
ReadsNewList(l, c) == LoadRules(l, c)

SelectCat(l, c) ==
  /\ modal = "none" /\ c # cat
  /\ cat' = c /\ ReadsNewList(l, c)
  /\ crossed' = (crossed \/ ReadingRules \/ WritingRules)
  /\ UNCHANGED <<filed, listed, modal, rwrite>>

\* The refresh button, and a return from another view.
RefreshRules(l) ==
  /\ modal = "none" /\ LoadRules(l, cat)
  /\ UNCHANGED <<filed, cat, listed, modal, rwrite, crossed>>

RulesRead(l) ==
  /\ rread[l].at = "sent"
  /\ rread' = [rread EXCEPT ![l].at = "back", ![l].got = filed[rread[l].cat]]
  /\ UNCHANGED <<filed, cat, listed, modal, rwrite, crossed>>

\* The last answer wins, whichever category is selected by now.
RulesShown(l) ==
  /\ rread[l].at = "back"
  /\ listed' = rread[l].got
  /\ rread' = [rread EXCEPT ![l] = NoRuleRead]
  /\ UNCHANGED <<filed, cat, modal, rwrite, crossed>>

RulesFail(l) ==
  /\ rread[l].at = "sent"
  /\ rread' = [rread EXCEPT ![l] = NoRuleRead]
  /\ crossed' = TRUE
  /\ UNCHANGED <<filed, cat, listed, modal, rwrite>>

-----------------------------------------------------------------------------
(* The dialogs and the buttons of the rows.                                *)

OpenModal(what) ==
  /\ modal = "none" /\ what # "none"
  /\ what = "edit" => listed # {}
  /\ modal' = what
  /\ UNCHANGED <<filed, cat, listed, rread, rwrite, crossed>>

\* Escape, the backdrop or a button.
CloseModal ==
  /\ modal # "none" /\ modal' = "none"
  /\ UNCHANGED <<filed, cat, listed, rread, rwrite, crossed>>

Writes(w, what, rules) ==
  /\ rwrite[w].at = "idle" /\ w = CHOOSE x \in RuleWrites : rwrite[x].at = "idle"
  /\ rwrite' = [rwrite EXCEPT ![w] = [at |-> "sent", what |-> what, cat |-> cat, rules |-> rules]]
  /\ crossed' = (crossed \/ ReadingRules)
  /\ UNCHANGED <<filed, cat, listed, modal, rread>>

\* AddRuleModal: one new rule, refused while empty.
AddRule(w) == modal = "add" /\ \E r \in Of(cat) : Writes(w, "add", {r})
\* ImportRulesModal: the text replaces the file.
ImportRules(w) == modal = "import" /\ \E rs \in SUBSET Of(cat) : Writes(w, "import", rs)
\* ClearConfirmModal.
ClearRules(w) == modal = "clear" /\ Writes(w, "clear", {})
\* EditRuleModal: another wording of a row's rule.
EditRule(w) == modal = "edit" /\ \E r \in listed : Writes(w, "edit", {r})
\* The bin of a row, after a question.
DeleteRule(w) == modal = "none" /\ \E r \in listed : Writes(w, "delete", {r})
\* A drop of one row on another one: the whole list.
ReorderRules(w) == modal = "none" /\ listed # {} /\ Writes(w, "reorder", listed)

\* What the server writes: an edit of a rule the file has not is appended.
Filed(write) ==
  CASE write.what \in {"add", "edit"} -> filed[write.cat] \cup write.rules
    [] write.what = "delete" -> filed[write.cat] \ write.rules
    [] OTHER -> write.rules

RulesWritten(w) ==
  /\ rwrite[w].at = "sent"
  /\ filed' = [filed EXCEPT ![rwrite[w].cat] = Filed(rwrite[w])]
  /\ rwrite' = [rwrite EXCEPT ![w] = [@ EXCEPT !.at = "back", !.rules = {}]]
  /\ UNCHANGED <<cat, listed, modal, rread, crossed>>

\* A refused reorder brings back the list it began with.
WriteRefused(w) ==
  /\ rwrite[w].at = "sent"
  /\ listed' = IF rwrite[w].what = "reorder" THEN rwrite[w].rules ELSE listed
  /\ rwrite' = [rwrite EXCEPT ![w] = NoRuleWrite]
  /\ UNCHANGED <<filed, cat, modal, rread, crossed>>

\* The dialog of its kind is closed, and the list of the category that was
\* selected when it was sent is read.
WriteDone(w) ==
  /\ rwrite[w].at = "back"
  /\ modal' = CASE rwrite[w].what \in {"add", "import", "clear"} /\ modal \in {"add", "import", "clear"} -> "none"
                [] rwrite[w].what = "edit" /\ modal = "edit" -> "none"
                [] OTHER -> modal
  /\ \E l \in RuleReads : LoadRules(l, rwrite[w].cat)
  /\ rwrite' = [rwrite EXCEPT ![w] = NoRuleWrite]
  /\ UNCHANGED <<filed, cat, listed, crossed>>

-----------------------------------------------------------------------------

RulesNext ==
  \/ \E l \in RuleReads :
       \/ RefreshRules(l) \/ RulesRead(l) \/ RulesShown(l) \/ RulesFail(l)
       \/ \E c \in Cats : SelectCat(l, c)
  \/ \E what \in Modals : OpenModal(what)
  \/ CloseModal
  \/ \E w \in RuleWrites :
       \/ AddRule(w) \/ ImportRules(w) \/ ClearRules(w) \/ EditRule(w)
       \/ DeleteRule(w) \/ ReorderRules(w)
       \/ RulesWritten(w) \/ WriteRefused(w) \/ WriteDone(w)

RulesSpec == RulesInit /\ [][RulesNext]_rvars

-----------------------------------------------------------------------------
(* Properties.                                                             *)

\* No rule gets into the file of another category, whatever is added, edited,
\* imported, reordered or refused, as long as the user waits for the list after
\* selecting a category and for the calls before selecting another, and no list
\* failed (rules/page.tsx:206-222, 424-441; handlers_mosdns.go:683-742).
RulesStayHome ==
  ~crossed => \A c \in Cats : filed[c] \subseteq Of(c)
=============================================================================
