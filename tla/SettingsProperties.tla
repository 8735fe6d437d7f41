------------------------- MODULE SettingsProperties -------------------------
(* What the settings centre shows, in its dialog and in its AI fields. *)
EXTENDS Settings, AiFields

\* The settings centre agrees with what is around it: the dialog is where the
\* URL is, what is shown of the preferences without a draft is what was
\* stored, and the endpoints that are saved are those on the screen
\* (settings-center-dialog.tsx:325, use-tracking-page.tsx:252).
SettingsAgree == UrlAgrees /\ CacheAgrees /\ EndpointsAreSavedAsShown
=============================================================================
