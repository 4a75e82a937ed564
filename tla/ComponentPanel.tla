--------------------------- MODULE ComponentPanel ----------------------------
(***************************************************************************)
(* The component cards of the settings page (ComponentUpdateCard and the   *)
(* handlers of UpdateTab, web/src/app/settings/SettingsClient.tsx): check, *)
(* update and upload of a component, each a chain of calls, with one string*)
(* componentBusy for all the cards; and the options of each component,     *)
(* shown before they are saved.                                            *)
(***************************************************************************)
EXTENDS Naturals, FiniteSets

CONSTANTS
  Parts,      \* components: mosdns, mihomo, zashboard
  OpSlots,    \* slots for chains of calls
  SaveSlots,  \* slots for saves of options
  NoPart      \* componentBusy = ""

ASSUME PartsAssumption == Parts # {} /\ NoPart \notin Parts

VARIABLES
  busy,     \* componentBusy
  op,       \* chains of calls in flight
  option,   \* componentConfigs: auto_update, as the page shows it
  stored,   \* auto_update, as the server has it
  save,     \* saves in flight
  mixed,    \* history: chains of two components were in flight at once
  overlap   \* history: two saves were in flight at once

cvars == <<busy, op, option, stored, save, mixed, overlap>>

OpAt == {"idle", "check", "auto", "update", "upload", "refresh", "reload"}
\* auto: what the closure of checkComponent saw of auto_update.
Op == [at : OpAt, part : Parts, auto : BOOLEAN]
NoOp == [at |-> "idle", part |-> CHOOSE p \in Parts : TRUE, auto |-> FALSE]
\* next, was: what is sent, and what a failure brings back.
Save == [at : {"idle", "sent", "stored"}, part : Parts, next : BOOLEAN, was : BOOLEAN]
NoSave == [at |-> "idle", part |-> CHOOSE p \in Parts : TRUE, next |-> FALSE, was |-> FALSE]

PanelTypeOK ==
  /\ busy \in Parts \cup {NoPart}
  /\ op \in [OpSlots -> Op]
  /\ option \in [Parts -> BOOLEAN] /\ stored \in [Parts -> BOOLEAN]
  /\ save \in [SaveSlots -> Save]
  /\ mixed \in BOOLEAN /\ overlap \in BOOLEAN

\* The configurations have been loaded.
PanelInit ==
  /\ busy = NoPart
  /\ op = [o \in OpSlots |-> NoOp]
  /\ stored \in [Parts -> BOOLEAN] /\ option = stored
  /\ save = [s \in SaveSlots |-> NoSave]
  /\ mixed = FALSE /\ overlap = FALSE

-----------------------------------------------------------------------------

Running == { o \in OpSlots : op[o].at # "idle" }
Saving == { s \in SaveSlots : save[s].at # "idle" }
OpMoves(o, at) == op' = [op EXCEPT ![o].at = at]

\* The buttons of a card are disabled while componentBusy names it; an update
\* also needs can_update, which the server decides.
Begin(o, part, at) ==
  /\ busy # part
  /\ op[o].at = "idle" /\ o = CHOOSE x \in OpSlots : op[x].at = "idle"
  /\ busy' = part
  /\ op' = [op EXCEPT ![o] = [at |-> at, part |-> part, auto |-> option[part]]]
  /\ mixed' = (mixed \/ \E x \in Running : op[x].part # part)
  /\ UNCHANGED <<option, stored, save, overlap>>

\* finally: the string is cleared, whoever set it.
End(o) == busy' = NoPart /\ op' = [op EXCEPT ![o] = NoOp]

\* Mutant: the string is cleared before the status is refreshed.
RefreshFreely(o) == busy' = NoPart /\ OpMoves(o, "refresh")
\* refreshComponentAfterUpdate is part of the chain.
Refreshes(o) == UNCHANGED busy /\ OpMoves(o, "refresh")

OpStep(o) ==
  /\ \/ /\ op[o].at = "check"    \* POST check: up to date, failed, or an update
        /\ \/ UNCHANGED busy /\ OpMoves(o, "reload")
           \/ op[o].auto /\ UNCHANGED busy /\ OpMoves(o, "auto")
           \/ End(o)
     \/ /\ op[o].at \in {"auto", "update"}
        /\ Refreshes(o) \/ (UNCHANGED busy /\ OpMoves(o, "reload")) \/ End(o)
     \/ /\ op[o].at = "upload"
        /\ (UNCHANGED busy /\ OpMoves(o, "reload")) \/ End(o)
     \/ op[o].at = "refresh" /\ UNCHANGED busy /\ OpMoves(o, "reload")
     \/ op[o].at = "reload" /\ End(o)
  /\ UNCHANGED <<option, stored, save, mixed, overlap>>

-----------------------------------------------------------------------------
(* saveComponentConfig.                                                    *)

SaveOption(s, part) ==
  /\ save[s].at = "idle" /\ s = CHOOSE x \in SaveSlots : save[x].at = "idle"
  /\ option' = [option EXCEPT ![part] = ~@]
  /\ save' = [save EXCEPT ![s] = [at |-> "sent", part |-> part,
                                  next |-> ~option[part], was |-> option[part]]]
  /\ overlap' = (overlap \/ \E x \in Saving : save[x].part = part)
  /\ UNCHANGED <<busy, op, stored, mixed>>

OptionStored(s) ==
  /\ save[s].at = "sent"
  /\ stored' = [stored EXCEPT ![save[s].part] = save[s].next]
  /\ save' = [save EXCEPT ![s].at = "stored"]
  /\ UNCHANGED <<busy, op, option, mixed, overlap>>

OptionShown(s) ==
  /\ save[s].at = "stored"
  /\ option' = [option EXCEPT ![save[s].part] = save[s].next]
  /\ save' = [save EXCEPT ![s] = NoSave]
  /\ UNCHANGED <<busy, op, stored, mixed, overlap>>

Reverted(s) == [option EXCEPT ![save[s].part] = save[s].was]

\* The call is refused; what the closure saw comes back.
OptionRefused(s) ==
  /\ save[s].at = "sent"
  /\ option' = Reverted(s)
  /\ save' = [save EXCEPT ![s] = NoSave]
  /\ UNCHANGED <<busy, op, stored, mixed, overlap>>

-----------------------------------------------------------------------------

PanelNext ==
  \/ \E o \in OpSlots :
       OpStep(o) \/ \E p \in Parts, at \in {"check", "update", "upload"} : Begin(o, p, at)
  \/ \E s \in SaveSlots :
       \/ OptionStored(s) \/ OptionShown(s) \/ OptionRefused(s)
       \/ \E p \in Parts : SaveOption(s, p)

PanelSpec == PanelInit /\ [][PanelNext]_cvars

-----------------------------------------------------------------------------
(* Properties.                                                             *)

\* As long as the cards are worked one at a time, no component has two chains
\* in flight: the buttons come back only after the last call of the chain, on
\* every way out of it; and the card whose buttons are disabled has a chain in
\* flight, so that none stays disabled (SettingsClient.tsx:1769-1856).
CardsTakeTurns ==
  /\ ~mixed => Cardinality(Running) <= 1
  /\ busy # NoPart => \E o \in Running : op[o].part = busy

\* An option the page shows is the one the server has, once its save has ended,
\* refused or not, unless two saves of it overlapped
\* (SettingsClient.tsx:1714-1729).
OptionsAgree ==
  ~overlap => \A p \in Parts :
    (\A s \in Saving : save[s].part # p) => option[p] = stored[p]
=============================================================================
