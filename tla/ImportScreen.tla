---------------------------- MODULE ImportScreen ----------------------------
(***************************************************************************)
(* The screen that previews a file and confirms rows of it                 *)
(* (ImportScreen.tsx), against the two routes of routes/imports.ts as      *)
(* ImportFlow has them: a file has one preview, a preview is confirmed     *)
(* once, with one choice of rows, and no row is recorded for two previews. *)
(* Requests are answered in any order, and the owner goes on while they    *)
(* are under way.                                                          *)
(***************************************************************************)
EXTENDS Integers, FiniteSets

CONSTANTS
  ImportFiles,
  OfferedRows,   \* of each file: the candidates its preview accepts
  NoFile,        \* the null of the screen's preview
  MaxUploads, MaxConfirms, MaxErrors

ASSUME ImportScreenAssumption ==
  DOMAIN OfferedRows = ImportFiles /\ NoFile \notin ImportFiles

VARIABLES
  stage,         \* select, preview, confirming or complete
  preview,       \* the file whose preview is on the screen
  selected,      \* the ids that are ticked
  notice,        \* the message: none, unusable, no_preview, not_confirmed
  uploads,       \* previews asked for and not answered
  confirms,      \* confirmations asked for and not answered
  recorded,      \* the server: what was confirmed of each preview
  asked,         \* how many requests were made
  errors,
  orderly        \* the owner has waited for every answer so far

importScreen     == <<stage, preview, selected, notice>>
importScreenVars == <<stage, preview, selected, notice, uploads, confirms,
                      recorded, asked, errors, orderly>>

ImportScreenInit ==
  /\ stage = "select" /\ preview = NoFile /\ selected = {} /\ notice = "none"
  /\ uploads = {} /\ confirms = {}
  /\ recorded = [f \in ImportFiles |-> {}]
  /\ asked = [upload |-> 0, confirm |-> 0]
  /\ errors = 0 /\ orderly = TRUE

Waiting == uploads # {} \/ confirms # {}

(***************************************************************************)
(* What the owner does.                                                    *)
(***************************************************************************)
\* The account is not an id, or the file is of another type or too large.
RefuseFile ==
  /\ stage = "select"
  /\ notice' = "unusable"
  /\ UNCHANGED <<stage, preview, selected, uploads, confirms, recorded,
                 asked, errors, orderly>>

loadConnectedFile(f) ==
  /\ stage = "select" /\ asked.upload < MaxUploads
  /\ uploads' = uploads \cup
       {[file |-> f, at |-> "sent", number |-> asked.upload + 1]}
  /\ asked' = [asked EXCEPT !.upload = @ + 1]
  /\ notice' = "none"
  /\ orderly' = (orderly /\ ~Waiting)
  /\ UNCHANGED <<stage, preview, selected, confirms, recorded, errors>>

TickedRows == IF preview = NoFile THEN {} ELSE OfferedRows[preview] \cap selected

\* A box may be ticked at every stage that shows the rows.
ToggleRow(row) ==
  /\ stage # "select" /\ preview # NoFile /\ row \in OfferedRows[preview]
  /\ selected' = IF row \in selected THEN selected \ {row}
                                     ELSE selected \cup {row}
  /\ orderly' = (orderly /\ stage = "preview")
  /\ UNCHANGED <<stage, preview, notice, uploads, confirms, recorded, asked,
                 errors>>

\* The request takes along the ids as they are; "shown" is what the owner sees.
confirmSelection ==
  /\ stage = "preview" /\ TickedRows # {} /\ asked.confirm < MaxConfirms
  /\ stage' = "confirming" /\ notice' = "none"
  /\ confirms' = confirms \cup
       {[file |-> preview, ids |-> selected, shown |-> TickedRows,
         at |-> "sent", number |-> asked.confirm + 1]}
  /\ asked' = [asked EXCEPT !.confirm = @ + 1]
  /\ orderly' = (orderly /\ ~Waiting)
  /\ UNCHANGED <<preview, selected, uploads, recorded, errors>>

StartOver ==
  /\ preview # NoFile /\ stage # "complete"
  /\ preview' = NoFile /\ selected' = {} /\ stage' = "select"
  /\ orderly' = (orderly /\ ~Waiting)
  /\ UNCHANGED <<notice, uploads, confirms, recorded, asked, errors>>

(***************************************************************************)
(* The server and the way to it.                                           *)
(***************************************************************************)
Upload(u, at) == uploads' = (uploads \ {u}) \cup {[u EXCEPT !.at = at]}
Confirmed(c, at) == confirms' = (confirms \ {c}) \cup {[c EXCEPT !.at = at]}

ScreenError == errors < MaxErrors /\ errors' = errors + 1

PreviewRoute(u) ==
  /\ u.at = "sent"
  /\ \/ Upload(u, "ok") /\ UNCHANGED errors
     \/ Upload(u, "failed") /\ ScreenError
  /\ UNCHANGED <<importScreen, confirms, recorded, asked, orderly>>

Recordable(c) ==
  /\ c.ids \subseteq OfferedRows[c.file]
  /\ recorded[c.file] \in {{}, c.ids}
  /\ \A f \in ImportFiles \ {c.file} : recorded[f] \cap c.ids = {}

ConfirmRoute(c) ==
  /\ c.at = "sent"
  /\ \/ /\ Recordable(c)
        /\ recorded' = [recorded EXCEPT ![c.file] = c.ids]
        /\ \/ Confirmed(c, "ok") /\ UNCHANGED errors
           \/ Confirmed(c, "failed") /\ ScreenError
     \/ /\ ~Recordable(c) /\ Confirmed(c, "failed")
        /\ UNCHANGED <<recorded, errors>>
     \/ /\ Confirmed(c, "failed") /\ ScreenError
        /\ UNCHANGED recorded
  /\ UNCHANGED <<importScreen, uploads, asked, orderly>>

(***************************************************************************)
(* The answers.                                                            *)
(***************************************************************************)
\* Mutant: the ticks of the preview before stay.
PreviewKeepsTicks(u) ==
  /\ u.at = "ok"
  /\ preview' = u.file /\ stage' = "preview" /\ UNCHANGED <<selected, notice>>

ShowPreview(u) ==
  /\ u.at = "ok"
  /\ preview' = u.file /\ selected' = OfferedRows[u.file]
  /\ stage' = "preview" /\ UNCHANGED notice

PreviewAnswered(u) ==
  /\ \/ ShowPreview(u)
     \/ /\ u.at = "failed" /\ notice' = "no_preview"
        /\ UNCHANGED <<stage, preview, selected>>
  /\ uploads' = uploads \ {u}
  /\ UNCHANGED <<confirms, recorded, asked, errors, orderly>>

\* Mutant: done whatever the answer says, as the demo's screen is.
CompleteAnyway(c) ==
  /\ c.at # "sent"
  /\ stage' = "complete" /\ UNCHANGED notice

ShowOutcome(c) ==
  \/ c.at = "ok" /\ stage' = "complete" /\ UNCHANGED notice
  \/ c.at = "failed" /\ stage' = "preview" /\ notice' = "not_confirmed"

ConfirmAnswered(c) ==
  /\ ShowOutcome(c)
  /\ confirms' = confirms \ {c}
  /\ UNCHANGED <<preview, selected, uploads, recorded, asked, errors, orderly>>

ImportScreenNext ==
  \/ RefuseFile \/ confirmSelection \/ StartOver
  \/ \E f \in ImportFiles : loadConnectedFile(f)
  \/ \E row \in UNION {OfferedRows[f] : f \in ImportFiles} : ToggleRow(row)
  \/ \E u \in uploads : PreviewRoute(u) \/ PreviewAnswered(u)
  \/ \E c \in confirms : ConfirmRoute(c) \/ ConfirmAnswered(c)

ImportScreenSpec == ImportScreenInit /\ [][ImportScreenNext]_importScreenVars

(***************************************************************************)
(* Properties.                                                             *)
(***************************************************************************)
\* Whatever order answers come in, a confirmation under way asks for rows the
\* owner saw ticked when it was made.
AsksForWhatIsShown == \A c \in confirms : c.ids = c.shown

\* "Import complete" stands beside the rows that were recorded, for an owner
\* who waits for each answer.
CompleteIsRecorded ==
  orderly /\ stage = "complete" =>
    preview # NoFile /\ recorded[preview] = TickedRows

\* "Confirmation failed. Your preview and row selections are still
\* available": there is a preview at every stage after the first, for an
\* owner who waits.  One who starts over while a confirmation is under way
\* may be left with a screen that has nothing on it.
PreviewStays == orderly /\ stage # "select" => preview # NoFile

ImportScreenHonest == AsksForWhatIsShown /\ CompleteIsRecorded /\ PreviewStays
=============================================================================
