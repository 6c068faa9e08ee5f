---------------------------- MODULE HandoffChain ----------------------------
(***************************************************************************)
(* The bound on what members hand over to other members, to the planner of *)
(* a diagnosis and to the lead (boundedHandoffChain in                     *)
(* src/src/tools/handoff-chain.ts): complete rows when they fit; otherwise *)
(* the identity of every delivery, and a fair share of what is left for    *)
(* each of them.                                                           *)
(*                                                                         *)
(* A text is the length of its JSON.  A delivery has the length of its     *)
(* complete row (full), of its identity (least) and of its row with every  *)
(* text cut to a width (cut[width]).  Nothing orders the lengths by the    *)
(* widths: half of a surrogate pair is escaped with six characters, and    *)
(* the next width has the pair again.                                      *)
(***************************************************************************)
EXTENDS Integers, SequencesExt

CONSTANTS
  MaxChars,    \* the budget of the chain
  Frame(_),    \* the length of what is around the rows, given the number of omitted ones
  Note,        \* how much longer it is with the note on what is missing
  MaxWidth,    \* the width from which the search starts
  Chains       \* the deliveries boundedHandoffChain may be given

Delivery == [full : Nat, least : Nat, cut : [1..MaxWidth -> Nat]]

\* The frame fits, as the budget is 256 characters at least; the number of omitted
\* rows in it gets one digit longer at most when one more is omitted.
ASSUME ChainAssumption ==
  /\ MaxChars \in Nat /\ MaxWidth \in Nat /\ Note \in Nat
  /\ \A c \in Chains :
       /\ c \in Seq(Delivery)
       /\ \A omitted \in 0..Len(c) : Frame(omitted) \in Nat
       /\ \A omitted \in 1..Len(c) : Frame(omitted) <= Frame(omitted - 1) + 1
       /\ Frame(Len(c)) + Note <= MaxChars

VARIABLES
  deliveries, \* the argument
  at,         \* where the function is
  next,       \* the delivery, later the kept row, that is looked at
  selected,   \* the deliveries that are kept, by their place in the argument
  rows,       \* their rows: the length and whether the row is complete
  body,       \* the length of the rows with the commas between them
  extra,      \* extraPerRow
  low, high   \* the search for a width

chainVars == <<deliveries, at, next, selected, rows, body, extra, low, high>>

Row(length, complete) == [length |-> length, complete |-> complete]
Omitted == Len(deliveries) - Len(selected)
Comma(n) == IF n = 0 THEN 0 ELSE 1

\* The lengths of the first n rows.
Totals(lengths) ==
  LET upTo[n \in 0..Len(lengths)] == IF n = 0 THEN 0 ELSE upTo[n - 1] + lengths[n]
  IN upTo

Joined(lengths) == Totals(lengths)[Len(lengths)] + (IF lengths = <<>> THEN 0 ELSE Len(lengths) - 1)

ChainInit ==
  /\ deliveries \in Chains
  /\ at = "measure"
  /\ next = 1
  /\ selected = <<>> /\ rows = <<>> /\ body = 0
  /\ extra = 0 /\ low = 0 /\ high = 0

\* All rows are complete, or the rows are selected one by one.
Complete == Joined([i \in DOMAIN deliveries |-> deliveries[i].full])

Measure ==
  /\ at = "measure"
  /\ IF Frame(0) + Complete <= MaxChars
       THEN /\ at' = "done"
            /\ selected' = [i \in DOMAIN deliveries |-> i]
            /\ rows' = [i \in DOMAIN deliveries |-> Row(deliveries[i].full, TRUE)]
            /\ body' = Complete
       ELSE at' = "select" /\ UNCHANGED <<selected, rows, body>>
  /\ UNCHANGED <<deliveries, next, extra, low, high>>

Keep(length) ==
  LET with == body + Comma(Len(selected)) + length
  IN IF Frame(Omitted - 1) + Note + with <= MaxChars
       THEN /\ selected' = Append(selected, next)
            /\ rows' = Append(rows, Row(deliveries[next].least, FALSE))
            /\ body' = body + Comma(Len(selected)) + deliveries[next].least
       ELSE UNCHANGED <<selected, rows, body>>

\* Fault: a delivery is kept when its complete row fits.
SelectComplete ==
  /\ at = "select" /\ next <= Len(deliveries)
  /\ Keep(deliveries[next].full)
  /\ next' = next + 1
  /\ UNCHANGED <<deliveries, at, extra, low, high>>

\* A delivery is kept when its identity fits beside those that are kept.
Select ==
  /\ at = "select" /\ next <= Len(deliveries)
  /\ Keep(deliveries[next].least)
  /\ next' = next + 1
  /\ UNCHANGED <<deliveries, at, extra, low, high>>

\* What is left is divided between the kept rows.
Remaining == MaxChars - Frame(Omitted) - Note - body

\* Fault: the share is rounded up.
RoundedUpShare == IF selected = <<>> THEN 0 ELSE (Remaining + Len(selected) - 1) \div Len(selected)

FairShare == IF selected = <<>> THEN 0 ELSE Remaining \div Len(selected)

Share ==
  /\ at = "select" /\ next > Len(deliveries)
  /\ at' = "fill"
  /\ next' = 1
  /\ extra' = FairShare
  /\ UNCHANGED <<deliveries, selected, rows, body, low, high>>

Filled == deliveries[selected[next]]
Budget == rows[next].length + extra
Cut(delivery, width) == IF width = 0 THEN delivery.least ELSE delivery.cut[width]

Fill(row) ==
  /\ rows' = [rows EXCEPT ![next] = row]
  /\ body' = body - rows[next].length + row.length
  /\ next' = next + 1
  /\ at' = "fill"
  /\ UNCHANGED <<deliveries, selected, extra, low, high>>

FillComplete ==
  /\ at = "fill" /\ next <= Len(rows)
  /\ Filled.full <= Budget
  /\ Fill(Row(Filled.full, TRUE))

BeginSearch ==
  /\ at = "fill" /\ next <= Len(rows)
  /\ Filled.full > Budget
  /\ at' = "search"
  /\ low' = 0 /\ high' = MaxWidth
  /\ UNCHANGED <<deliveries, next, selected, rows, body, extra>>

Middle == (low + high + 1) \div 2

\* Fault: the first width that is too wide stays in the search.
NarrowLoosely ==
  /\ at = "search" /\ low < high
  /\ IF Cut(Filled, Middle) <= Budget \/ Middle = high
       THEN low' = Middle /\ UNCHANGED high
       ELSE high' = Middle /\ UNCHANGED low
  /\ UNCHANGED <<deliveries, at, next, selected, rows, body, extra>>

\* The search ends at a width that was tried, or at zero.
Narrow ==
  /\ at = "search" /\ low < high
  /\ IF Cut(Filled, Middle) <= Budget
       THEN low' = Middle /\ UNCHANGED high
       ELSE high' = Middle - 1 /\ UNCHANGED low
  /\ UNCHANGED <<deliveries, at, next, selected, rows, body, extra>>

FillCut ==
  /\ at = "search" /\ low >= high
  /\ Fill(Row(Cut(Filled, low), FALSE))

Encode ==
  /\ at = "fill" /\ next > Len(rows)
  /\ at' = "done"
  /\ UNCHANGED <<deliveries, next, selected, rows, body, extra, low, high>>

ChainNext == Measure \/ Select \/ Share \/ FillComplete \/ BeginSearch \/ Narrow \/ FillCut \/ Encode

ChainSpec == ChainInit /\ [][ChainNext]_chainVars

(***************************************************************************)
(* Properties.                                                             *)
(***************************************************************************)
Truncated == Omitted > 0 \/ \E i \in DOMAIN rows : ~rows[i].complete

\* What boundedHandoffChain returns is within the budget, whatever the lengths
\* of the cut texts are.
ChainFits == at = "done" => Frame(Omitted) + (IF Truncated THEN Note ELSE 0) + body <= MaxChars

\* The reference: the kept deliveries with nothing but their identities.
BareLength == Joined([i \in DOMAIN selected |-> deliveries[selected[i]].least])
ShareOf == (MaxChars - Frame(Omitted) - Note - BareLength) \div Len(selected)

\* A chain that fits is complete.  In any other one, whoever is left out does not
\* fit even with its identity alone, and whoever is kept has a row within its fair
\* share, a complete one if that is enough: no early verbose member displaces a
\* later one.
ChainIsFair ==
  at = "done" =>
    /\ body = Joined([i \in DOMAIN rows |-> rows[i].length])
    /\ Frame(0) + Complete <= MaxChars => Omitted = 0 /\ ~Truncated
    /\ \A i \in DOMAIN deliveries \ Range(selected) :
         Frame(Omitted - 1) + Note + BareLength + Comma(Len(selected)) + deliveries[i].least > MaxChars
    /\ Truncated => \A i \in DOMAIN selected :
         LET d == deliveries[selected[i]]
         IN /\ rows[i].length <= d.least + ShareOf
            /\ rows[i].complete <=> d.full <= d.least + ShareOf
=============================================================================
