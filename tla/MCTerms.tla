---- MODULE MCTerms ----
(***************************************************************************)
(* Terms alone for TLC: two amounts, one add-on, and days around the ends  *)
(* of months, of a leap year and of a year.                                *)
(***************************************************************************)
EXTENDS Terms

MCDates == {<<2027, 12, 31>>, <<2028, 1, 31>>, <<2028, 2, 29>>}
Spec == TermsInit /\ [][TermsNext]_terms
====
