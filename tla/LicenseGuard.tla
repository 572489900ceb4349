---------------------------- MODULE LicenseGuard ----------------------------
(***************************************************************************)
(* ingest/license_guard.py in bulk mode: may the whole of a text be given  *)
(* away?  Licences are written the way the adapters and documents write    *)
(* them; the guard compares them without regard to case.                   *)
(***************************************************************************)

\* resolve_composite_license: a source whose parts have several licences has
\* the most restrictive one.
Composite == {"macula-hebrew", "macula-greek", "MACULA-Hebrew", "MACULA-Greek"}
Effective(license) == IF license \in Composite THEN "CC-BY-NC-4.0" ELSE license

\* Everything else denies bulk: CC-BY-NC-4.0, SBLGNT-EULA, proprietary texts
\* and licences nobody knows.
AlwaysAllowed == {"public_domain", "PD", "CC0", "CC-BY", "CC-BY-4.0", "CC-BY-SA-4.0"}

\* check_redistribute(license, "bulk")["allowed"]
BulkAllowed(license) == Effective(license) \in AlwaysAllowed

\* LICENSE_REGISTRY of the historical layer: whether a text under a registered
\* licence is marked redistribute.
LicenseRegistry ==
  [license \in {"CC-BY-SA-4.0", "PD", "CC-BY", "CC0", "CC-BY-NC-4.0"} |->
     license # "CC-BY-NC-4.0"]
=============================================================================
