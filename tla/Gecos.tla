-------------------------------- MODULE Gecos --------------------------------
(***************************************************************************)
(* The GECOS string of an account and its parts (gecos_parse(),            *)
(* gecos_size(), gecos_assemble() of userhelper.c).  A string is the       *)
(* sequence of what stands between its commas; the empty string is <<>>.   *)
(* A value is a member of Texts, and Length says how long it is.           *)
(***************************************************************************)
EXTENDS Integers, Sequences, FiniteSetsExt

CONSTANTS
    Texts,     \* what a field may hold, "" among it
    Length     \* strlen() of each

ASSUME TextsAssumption  == "" \in Texts
ASSUME LengthAssumption == Length \in [Texts -> Nat] /\ Length[""] = 0

GECOS_LENGTH == 127

\* A field that is not there (NULL).
NoText == "NULL"
ASSUME NoTextAssumption == NoText \notin Texts

FieldNames == <<"full_name", "office", "office_phone", "home_phone">>
Fields     == {FieldNames[i] : i \in 1..4}

\* struct gecos_data: four fields, and whatever follows them.
GecosData == [fields: [Fields -> Texts \cup {NoText}], site_info: Seq(Texts)]

FieldNumber(f) == CHOOSE i \in 1..4 : FieldNames[i] = f

\* gecos_parse(): split at the first four commas.
GecosParse(gecos) ==
    [fields |-> [f \in Fields |-> IF FieldNumber(f) \in DOMAIN gecos
                                  THEN gecos[FieldNumber(f)] ELSE NoText],
     site_info |-> SubSeq(gecos, 5, Len(gecos))]

TextOf(t) == IF t = NoText THEN "" ELSE t

\* gecos_size(): four commas, the fields, and the end of the string.
GecosSize(p) ==
    LET site == p.site_info IN
    4 + MapThenSumSet(LAMBDA f : Length[TextOf(p.fields[f])], Fields)
      + MapThenSumSet(LAMBDA i : Length[site[i]] + (IF i > 1 THEN 1 ELSE 0),
                      DOMAIN site)
      + 1

\* Strip off terminal commas.
Stripped(gecos) ==
    SubSeq(gecos, 1, Max({0} \cup {i \in DOMAIN gecos : gecos[i] # ""}))

\* Mutant: what follows the four fields is dropped.
GecosAssembleFour(p) ==
    Stripped([i \in 1..4 |-> TextOf(p.fields[FieldNames[i]])])

\* gecos_assemble().
GecosAssemble(p) ==
    Stripped([i \in 1..4 |-> TextOf(p.fields[FieldNames[i]])] \o p.site_info)
=============================================================================
