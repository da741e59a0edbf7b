-------------------------------- MODULE Theme --------------------------------
(***************************************************************************)
(* The theme: a preference in the local storage all tabs share, the        *)
(* system's own, and in each tab the script of the page (web/src/app.html) *)
(* followed by the store (web/src/lib/theme) that the root layout starts.  *)
(* The browser may refuse access to the storage.                           *)
(***************************************************************************)
EXTENDS Naturals

CONSTANT Tab

VARIABLES stored,    \* localStorage's theme
          os,        \* whether the system prefers dark
          refused,   \* whether the storage throws
          document   \* the document in each tab

vars == <<stored, os, refused, document>>

Preference == {"light", "dark", "system"}

(* A document: the store's two fields, whether <html> has the class dark,   *)
(* and as history what it was first painted for and whether another tab has *)
(* stored a preference since.                                               *)
Closed == [phase |-> "closed", preference |-> "system", systemDark |-> FALSE,
           dark |-> FALSE, paintedFor |-> <<"system", FALSE>>, behind |-> FALSE]

NormalizePreference(raw) == IF raw \in Preference THEN raw ELSE "system"

\* resolveEffective: whether the effective theme is dark.
Dark(preference, systemDark) ==
    preference = "dark" \/ (preference = "system" /\ systemDark)

\* #apply
Applied(d) == [d EXCEPT !.dark = Dark(d.preference, d.systemDark)]

\* Mutant: the script has lost its first line, and knows no default.
PaintedRaw(raw, systemDark) == raw = "dark" \/ (raw = "system" /\ systemDark)

\* The script's own copy of that logic: p starts as what is stored.
Painted(raw, systemDark) ==
    LET p == IF raw # "light" /\ raw # "dark" /\ raw # "system" THEN "system" ELSE raw
    IN p = "dark" \/ (p = "system" /\ systemDark)

\* A page is loaded: the script in its head, before the first paint.  A refused
\* storage leaves the class off.
Paint(t) ==
    /\ document' = [document EXCEPT ![t] =
          [Closed EXCEPT !.phase = "painted",
                         !.dark = ~refused /\ Painted(stored, os),
                         !.paintedFor = <<stored, os>>]]
    /\ UNCHANGED <<stored, os, refused>>

\* theme.init in the layout's onMount: with a refused storage it throws.
Init(t) ==
    /\ document[t].phase = "painted"
    /\ \/ /\ ~refused
          /\ document' = [document EXCEPT ![t] =
                Applied([@ EXCEPT !.phase = "mounted", !.systemDark = os,
                                  !.preference = NormalizePreference(stored)])]
       \/ /\ refused
          /\ document' = [document EXCEPT ![t].phase = "failed"]
    /\ UNCHANGED <<stored, os, refused>>

\* theme.set: where setItem throws, the preference has changed and the class has not.
Set(t, p) ==
    /\ \/ /\ ~refused /\ document[t].phase = "mounted"
          /\ stored' = p
          /\ document' = [d \in Tab |->
                IF d = t THEN Applied([document[t] EXCEPT !.preference = p, !.behind = FALSE])
                ELSE [document[d] EXCEPT !.behind = document[d].phase = "mounted"]]
       \/ /\ refused /\ document[t].phase = "failed"
          /\ document' = [document EXCEPT ![t].preference = p]
          /\ UNCHANGED stored
    /\ UNCHANGED <<os, refused>>

\* #onSystemChange, when the tab comes to it; the storage has no such event.
OnSystemChange(t) ==
    /\ document[t].phase = "mounted" /\ document[t].systemDark # os
    /\ document' = [document EXCEPT ![t] = Applied([@ EXCEPT !.systemDark = os])]
    /\ UNCHANGED <<stored, os, refused>>

SystemChange == os' = ~os /\ UNCHANGED <<stored, refused, document>>

Start == /\ stored \in Preference \cup {"none", "other"}
         /\ os \in BOOLEAN /\ refused \in BOOLEAN
         /\ document = [t \in Tab |-> Closed]

Next == \/ \E t \in Tab : \/ Paint(t) \/ Init(t) \/ OnSystemChange(t)
                          \/ \E p \in Preference : Set(t, p)
        \/ SystemChange

-----------------------------------------------------------------------------
\* The script paints what the store will apply, so that it takes over without a flash,
\* and a tab in use shows what the script would paint after a reload; but for a change of
\* the system it has not come to and for a preference another tab has stored since
\* (theme.svelte.ts 9-14, app.html 8-10).  A tab without storage shows the light theme
\* and is left out.
ShownAsReloaded ==
    \A t \in Tab : LET d == document[t] IN
        /\ d.phase = "painted" /\ d.paintedFor = <<stored, os>> /\ ~refused
             => d.dark = Dark(NormalizePreference(stored), os)
        /\ d.phase = "mounted" /\ d.systemDark = os /\ ~d.behind
             => d.dark = Painted(stored, os)
=============================================================================
