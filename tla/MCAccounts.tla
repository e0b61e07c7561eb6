------------------------------- MODULE MCAccounts -------------------------------
(* Accounts for TLC: the files that make a difference to the import. *)
EXTENDS Accounts, TLC

CONSTANTS a, b, x, s1

Row(roll, plain, email, section) == [roll |-> roll, plain |-> plain, email |-> email, section |-> section]
File(lines, columns) == [lines |-> lines, columns |-> columns]
Two == {"roll", "email"}

\* The same roll number twice, a roll number with punctuation, an address that another row
\* is given, a section, roll numbers that are missing or mean nothing, and columns that lack.
MCFiles == {
    File(<<Row(a, TRUE, x, s1), Row(a, TRUE, Blank, s1)>>, Two \cup {"section"}),
    File(<<Row(a, FALSE, x, Blank), Row(Blank, TRUE, Blank, s1), Row(Blank, TRUE, x, Blank)>>, {"roll"}),
    File(<<Row(b, TRUE, x, Blank), Row(a, TRUE, x, Blank)>>, Two),
    File(<<Row(b, TRUE, a, Blank), Row(a, TRUE, Blank, Blank)>>, Two),
    File(<<Row(Void, FALSE, x, Blank), Row(a, TRUE, x, Blank)>>, Two),
    File(<<Row(a, TRUE, x, Blank)>>, {"email"})}

Symmetry == Permutations(Calls)

=================================================================================
