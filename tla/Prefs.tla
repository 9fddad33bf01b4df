-------------------------------- MODULE Prefs --------------------------------
(***************************************************************************)
(* The preferences of the HMI: the settings form, the callbacks of ui_task *)
(* that apply and reset them, the copy in the data model and the blob in   *)
(* the NVS.  All of it runs in ui_task, apart from the load in app_main    *)
(* before that task starts; a restart may come between any two steps.      *)
(*                                                                         *)
(* The preferences are the language and the text scale, which stands for   *)
(* the other settings.  LVGL and the NVS are external; setting the options *)
(* of a drop-down list selects its first entry.                            *)
(***************************************************************************)
EXTENDS Integers

CONSTANTS
    Languages,  \* 0 .. HMI_LANGUAGE_MAX - 1; 0 is HMI_LANGUAGE_EN
    Scales,     \* the positions of the slider, 80 .. 140
    Normal,     \* the text scale 100
    Garbage,    \* what a byte of an older blob may hold and no slider or list gives
    NoBlob,     \* nothing is stored
    OddBlob     \* a blob of another length, of an older firmware

ASSUME PrefsAssumption ==
    /\ 0 \in Languages /\ Normal \in Scales
    /\ Garbage \notin Scales \cup Languages
    /\ {NoBlob, OddBlob} \cap [scale : Scales \cup {Garbage}, lang : Languages \cup {Garbage}] = {}

VARIABLES
    blob,     \* external: the key "user" of the namespace hmi_prefs
    model,    \* preferences of the data model
    s_prefs,  \* of t_ui.c
    active,   \* s_active_prefs of ui_screens.c
    form,     \* external: what the widgets of the settings screen show
    touched,  \* history: the settings the user has changed in the form since it was filled
    ui        \* where ui_task is

prefsVars == <<blob, model, s_prefs, active, form, touched, ui>>

Fields == {"scale", "lang"}
UserChoices == [scale : Scales, lang : Languages]
Blobs == [scale : Scales \cup {Garbage}, lang : Languages \cup {Garbage}] \cup {NoBlob, OddBlob}

\* hmi_data_model_set_default_preferences
Defaults == [scale |-> Normal, lang |-> 0]

\* sanitize_preferences, the same in data_model.c and prefs_store.c.
Sanitize(p) ==
    [p EXCEPT !.scale = IF @ \in Scales THEN @ ELSE Normal, !.lang = IF @ \in Languages THEN @ ELSE 0]

\* What a load makes of a blob.
Loaded(b) == IF b \in {NoBlob, OddBlob} THEN Defaults ELSE Sanitize(b)

\* hmi_data_model_init, and no task yet.
PrefsInit ==
    /\ blob \in Blobs
    /\ model = Loaded(blob)
    /\ s_prefs = Defaults /\ active = Defaults /\ form = Defaults
    /\ touched = {} /\ ui = "boot"

-----------------------------------------------------------------------------
\* ui_apply_preferences: the list of languages is filled after an entry was selected in it.
Shows(p) ==
    /\ active' = p
    /\ form' = [p EXCEPT !.lang = 0]
    /\ touched' = {}

\* ui_task up to its loop
UiStarts ==
    /\ ui = "boot"
    /\ s_prefs' = model
    /\ Shows(model)
    /\ ui' = "loop"
    /\ UNCHANGED <<blob, model>>

\* The user moves a control of the form.
UserEdits(f, p) ==
    /\ ui = "loop"
    /\ form' = [form EXCEPT ![f] = p[f]]
    /\ touched' = touched \cup {f}
    /\ UNCHANGED <<blob, model, s_prefs, active, ui>>

\* Fault: the scale is the default's, whatever the slider says.
FromFormForgetsScale == [Sanitize(form) EXCEPT !.scale = Normal]

\* prefs_apply_event_cb and dispatch_apply_preferences: every setting is taken from the form.
FromForm == Sanitize(form)

\* ui_cb_apply_prefs: the model is told, ...
AppliesToModel ==
    /\ ui = "loop"
    /\ s_prefs' = FromForm
    /\ model' = FromForm
    /\ ui' = "save"
    /\ UNCHANGED <<blob, active, form, touched>>

\* Fault: the preferences that were active before are saved.
SavesActive ==
    /\ ui = "save"
    /\ blob' = active
    /\ ui' = "show"
    /\ UNCHANGED <<model, s_prefs, active, form, touched>>

\* ... then the NVS, ...
Saves ==
    /\ ui = "save"
    /\ blob' = Sanitize(s_prefs)
    /\ ui' = "show"
    /\ UNCHANGED <<model, s_prefs, active, form, touched>>

SaveFails ==
    /\ ui = "save"
    /\ ui' = "show"
    /\ UNCHANGED <<blob, model, s_prefs, active, form, touched>>

\* ... then the screen.
ShowsApplied ==
    /\ ui = "show"
    /\ Shows(s_prefs)
    /\ ui' = "loop"
    /\ UNCHANGED <<blob, model, s_prefs>>

\* Fault: s_prefs is not read back.
ResetsOnlyModel ==
    /\ ui = "loop"
    /\ model' = Defaults
    /\ Shows(Defaults)
    /\ ui' = "erase"
    /\ UNCHANGED <<blob, s_prefs>>

\* ui_cb_reset_prefs: the model and the screen first, ...
Resets ==
    /\ ui = "loop"
    /\ model' = Defaults /\ s_prefs' = Defaults
    /\ Shows(Defaults)
    /\ ui' = "erase"
    /\ UNCHANGED blob

\* ... then the NVS.
Erases ==
    /\ ui = "erase"
    /\ blob' = NoBlob
    /\ ui' = "loop"
    /\ UNCHANGED <<model, s_prefs, active, form, touched>>

EraseFails ==
    /\ ui = "erase"
    /\ ui' = "loop"
    /\ UNCHANGED <<blob, model, s_prefs, active, form, touched>>

PrefsNext ==
    \/ UiStarts \/ AppliesToModel \/ Saves \/ SaveFails \/ ShowsApplied
    \/ Resets \/ Erases \/ EraseFails
    \/ \E f \in Fields, p \in UserChoices : UserEdits(f, p)

\* A restart: app_main loads the blob, or the NVS cannot be read.
PrefsReboot ==
    /\ model' \in {Loaded(blob), Defaults}
    /\ s_prefs' = Defaults /\ active' = Defaults /\ form' = Defaults /\ touched' = {}
    /\ ui' = "boot"
    /\ UNCHANGED blob

\* ensure_secure_nvs erases the whole partition.
PrefsWiped ==
    /\ blob' = NoBlob /\ model' = Defaults
    /\ s_prefs' = Defaults /\ active' = Defaults /\ form' = Defaults /\ touched' = {}
    /\ ui' = "boot"

-----------------------------------------------------------------------------
\* The screen, the callbacks and the data model agree on the preferences whenever ui_task is in its
\* loop (ui_cb_apply_prefs, ui_cb_reset_prefs, ui_apply_preferences), whatever failed and after
\* whatever restart; and what they agree on is a choice the form could have made.
SettingsAgree ==
    /\ ui \in {"loop", "erase"} => s_prefs = model /\ active = model
    /\ model \in UserChoices

\* The preferences in force are the model's; those kept are what a load makes of the blob.
Promise ==
    INSTANCE Settings WITH
        inForce <- model, kept <- Loaded(blob), Choices <- UserChoices, Default <- Defaults

\* The data model, the store and the screen implement Settings: a restart brings back the last choice
\* that was saved, whole and sanitised, or the defaults, and never a mixture; a reset that could not
\* be written leaves the choice before it to come back.
PrefsKept == Promise!Spec

\* Applying the form changes no setting the user did not touch (prefs_apply_event_cb takes every
\* setting from the widgets) except the language: the list shows its first entry after every
\* ui_apply_preferences, and what it shows is applied.
UntouchedKept ==
    [][AppliesToModel =>
         \A f \in Fields \ touched : model'[f] = model[f] \/ (f = "lang" /\ model'[f] = 0)]_prefsVars

(***************************************************************************)
(* Why these hold.                                                         *)
(***************************************************************************)

PrefsTypeOK ==
    /\ blob \in Blobs /\ model \in UserChoices
    /\ s_prefs \in UserChoices /\ active \in UserChoices /\ form \in UserChoices
    /\ touched \subseteq Fields /\ ui \in {"boot", "loop", "save", "show", "erase"}

\* The callbacks have the model's preferences from the start of ui_task on; those on the screen follow
\* them, and a reset that is yet to be written was of the model as well.
CopiesFollowModel ==
    /\ ui # "boot" => s_prefs = model
    /\ ui \in {"loop", "erase"} => active = model
    /\ ui = "erase" => model = Defaults

\* What the user has not touched the form shows as it is in the model, or as the first language.
FormFollowsModel ==
    ui \in {"loop", "erase"} =>
      \A f \in Fields \ touched : form[f] = model[f] \/ (f = "lang" /\ form[f] = 0)

\* The inductive invariant.
PrefsInv == PrefsTypeOK /\ CopiesFollowModel /\ FormFollowsModel
=============================================================================
