----------------------------- MODULE SheetSlicing -----------------------------
(* Cutting a sheet, on which the views of an entity stand side by side, into *)
(* the views.  A sheet is a row of columns: the luminance of what is drawn   *)
(* in each, and which of them are faint, that is dark in fewer of their rows *)
(* than contentColumnRatio.  The rows of a view, its height and the canvas   *)
(* it is padded to are left out.                                             *)
EXTENDS Integers, SequencesExt, FiniteSetsExt

CONSTANT
  SegmentPadding   \* DEFAULTS.segmentPadding

ASSUME PaddingAssumption == SegmentPadding \in Nat \ {0}

Line == 31      \* #1F1F1F
Gray == 184     \* #B8B8B8
Paper == 230    \* #E6E6E6
White == 255

InkThreshold == 205

(* Faulty variant: the remainder of the division belongs to no view.         *)
WholeSteps(width, count) ==
  LET step == width \div count
  IN  [i \in 1..count |-> <<(i - 1) * step, i * step>>]

(* A range is a pair of its first column and of the one after its last.      *)
EqualRanges(width, count) ==
  LET step == width \div count
  IN  [i \in 1..count |-> <<(i - 1) * step, IF i = count THEN width ELSE i * step>>]

Dark(sheet) == {x \in DOMAIN sheet.luminance : sheet.luminance[x] <= InkThreshold}

(* isContent: a faint column counts as background.                           *)
Content(sheet) == Dark(sheet) \ sheet.faint

(* The maximal runs of other columns between the outermost ones with content.*)
Gaps(content) ==
  {g \in content \X content : g[1] + 1 < g[2] /\ \A x \in content : x <= g[1] \/ x >= g[2]}

Size(gap) == gap[2] - gap[1] - 1

Before(g, h) == Size(g) > Size(h) \/ (Size(g) = Size(h) /\ g[1] < h[1])

Widest(gaps, n) == {g \in gaps : Cardinality({h \in gaps : Before(h, g)}) < n}

Middle(gap) == (gap[1] + gap[2]) \div 2

(* The n-th element of the result has n - 1 smaller ones beside it.          *)
Separators(gaps) ==
  LET at == {Middle(g) : g \in gaps}
  IN  [n \in 1..Cardinality(at) |->
         CHOOSE x \in at : Cardinality({y \in at : y < x}) = n - 1]

(* computeSegmentBoundaries: no result if the sheet has too little content or*)
(* too few valleys.                                                          *)
MeasuredRanges(sheet, count) ==
  LET content == Content(sheet)
      first == Min(content)
      last == Max(content)
      cuts == <<first>> \o Separators(Widest(Gaps(content), count - 1)) \o <<last + 1>>
      left(i) == IF i = 1 THEN cuts[i] ELSE cuts[i] + 1
      range(i) == LET from == Max({0, left(i) - SegmentPadding})
                      to == Min({Cardinality(DOMAIN sheet.luminance), cuts[i + 1] + SegmentPadding})
                  IN  <<from, Max({to, from + 1})>>
  IN  IF content = {} \/ last - first < count \/ Cardinality(Gaps(content)) < count - 1 THEN {}
      ELSE {[i \in 1..count |-> range(i)]}

Ranges(sheet, count, equalCut) ==
  LET width == Cardinality(DOMAIN sheet.luminance)
      measured == IF equalCut THEN {} ELSE MeasuredRanges(sheet, count)
  IN  IF measured = {} THEN EqualRanges(width, count) ELSE CHOOSE r \in measured : TRUE

-----------------------------------------------------------------------------
(* Trimming a view.                                                          *)

(* Faulty variant: the tolerance is measured from white, whatever the sheet. *)
ToleranceFromWhite(background) == White - InkThreshold

Tolerance(background) == Max({1, background - InkThreshold})

Distance(a, b) == IF a > b THEN a - b ELSE b - a

(* Columns at either side without a pixel that differs from the background   *)
(* go, so that a faint one stays; a view that is all background stays as it  *)
(* is.                                                                       *)
Trimmed(sheet, range, background) ==
  LET seen == {x \in range[1]..(range[2] - 1) :
                 Distance(sheet.luminance[x], background) > Tolerance(background)}
  IN  IF seen = {} THEN range ELSE <<Min(seen), Max(seen) + 1>>

Slices(sheet, slots, background, equalCut) ==
  LET ranges == Ranges(sheet, Len(slots), equalCut)
  IN  [slot \in ToSet(slots) |->
         LET i == CHOOSE n \in DOMAIN slots : slots[n] = slot
         IN  Trimmed(sheet, ranges[i], background)]
=============================================================================
