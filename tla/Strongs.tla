------------------------------- MODULE Strongs -------------------------------
(***************************************************************************)
(* ingest/canonical_strongs.py: the Strong's number every adapter joins on.*)
(*                                                                         *)
(* A raw Strong's number is [prefix, digits, suffix]: the letter H or G,   *)
(* or "" where the edition leaves it out, the digits as they are padded in *)
(* the file, and the sense letter or "".  digits = "" stands for every     *)
(* text that is no Strong's number (a particle's letter, a blank).         *)
(***************************************************************************)
EXTENDS PropertyGraph

Raw(prefix, digits, suffix) == [prefix |-> prefix, digits |-> digits, suffix |-> suffix]
NoStrong == Raw("", "", "")
RawStrongs == [prefix : {"", "H", "G"}, digits : STRING, suffix : STRING]

\* Mutant: a longer number is cut to its last digits.
ZfillCut(n, d) == SubSeq("00000" \o d, 6 + Len(d) - n, 5 + Len(d))
Zfill(n, d) == SubSeq("00000", 1, n - Len(d)) \o d

\* The canonical text carries the suffix, which is also returned by itself.
\* It pads to four digits and never strips: H7225 and H07225 stay apart.
CanonicalStrongs(raw, lang) ==
  LET letter == IF raw.prefix # "" THEN raw.prefix
                ELSE CASE lang = "hb" -> "H" [] lang = "gk" -> "G" [] OTHER -> ""
      base   == letter \o Zfill(4, raw.digits)
  IN  IF raw.digits = "" \/ letter = ""
      THEN [id |-> Null, base |-> Null, suffix |-> Null]
      ELSE [id |-> base \o raw.suffix, base |-> base,
            suffix |-> IF raw.suffix = "" THEN Null ELSE raw.suffix]
=============================================================================
