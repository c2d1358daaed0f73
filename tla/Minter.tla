-------------------------------- MODULE Minter --------------------------------
(***************************************************************************)
(* The minter of a shoulder, impl/nog_sql/ezid_minter.py: a row of table   *)
(* Minter from which the generated part of a new identifier is computed.   *)
(*                                                                         *)
(* A mask such as "eed" says how many strings there are.  The numbers      *)
(* 1..total are dealt out to some 293 counters; a mint steps one counter   *)
(* that has not reached its top, takes the number                          *)
(* value + index * perCounter, and writes it in the digits of the mask.    *)
(* When every counter is at its top the mask is extended, and all of it    *)
(* starts again on longer strings.                                         *)
(*                                                                         *)
(* A mint runs in a transaction that locks the row (SELECT FOR UPDATE), so *)
(* it is one action.  Which counter is stepped depends on a generator      *)
(* seeded with the count; here it is any.  The check character, a function *)
(* of the rest of the string, is left out.                                 *)
(***************************************************************************)
EXTENDS Naturals, Sequences, FiniteSets, FiniteSetsExt, Functions

CONSTANTS AlphaCount,      \* ALPHA_COUNT
          DigitCount,      \* DIGIT_COUNT
          PrimeFactor,     \* prime_factor
          AddCount,        \* N of the rule "addN" for extending a mask
          FirstMask,       \* the mask the shoulder was created with
          MaxLength        \* bound on the length of a mask

Masks == Seq({"e", "d"})

base(c) == IF c = "e" THEN AlphaCount ELSE DigitCount

\* _extend_mask
ExtendMask(mask, n) == SubSeq(mask, 1, IF n < Len(mask) THEN n ELSE Len(mask)) \o mask

\* The product of the bases of the characters at some positions of a mask.
Weight(mask, positions) ==
    FoldFunctionOnSet(LAMBDA a, b : a * b, 1, [i \in DOMAIN mask |-> base(mask[i])],
                      positions)

\* _get_max_count
MaxCount(mask) == Weight(mask, DOMAIN mask)

ASSUME MinterAssumption ==
    /\ AlphaCount \in Nat \ {0}
    /\ DigitCount \in Nat \ {0}
    /\ PrimeFactor \in Nat \ {0}
    /\ AddCount \in Nat \ {0}
    /\ FirstMask \in Masks \ {<<>>}
    /\ MaxLength \in Nat
    /\ Len(FirstMask) <= MaxLength

VARIABLES minter,      \* the row of table Minter
          minted       \* the mask and the number of every mint so far

vars == <<minter, minted>>

-----------------------------------------------------------------------------
(* The counters *)

PerCounter(total) == total \div PrimeFactor + 1

\* Mutant: every counter has the same top.
NewCountersEven(total) ==
    LET per == PerCounter(total)
        n == (total + per - 1) \div per
    IN  [k \in 0..(n - 1) |-> [top |-> per, value |-> 0]]

\* _generate_active_counter_list: the last counter has what is left.
NewCounters(total) ==
    LET per == PerCounter(total)
    IN  [k \in {j \in 0..total : j * per < total} |->
            [top |-> IF (k + 1) * per <= total THEN per ELSE total - k * per,
             value |-> 0]]

\* _extend_template, on a row whose mask is old and whose rule is "addN".
Extended(m, n) ==
    LET mask == ExtendMask(m.mask, n)
        total == MaxCount(mask)
    IN  [mask |-> mask,
         baseCount |-> m.baseCount + m.combined,
         combined |-> 0,
         total |-> total,
         perCounter |-> PerCounter(total),
         counters |-> NewCounters(total),
         active |-> DOMAIN NewCounters(total)]

\* create: an empty row extended by "add0".
Init ==
    /\ minter = Extended([mask |-> FirstMask, baseCount |-> 0, combined |-> 0], 0)
    /\ minted = {}

-----------------------------------------------------------------------------
(* mint *)

\* Mutant: the last string of a mask is not minted.
ExhaustedEarly(m) == m.combined + 1 = m.total

Exhausted(m) == m.combined = m.total

\* Mutant: a counter stays active one step too long.
StepPastTop(m, k) ==
    LET v == m.counters[k].value + 1
    IN  [m EXCEPT !.combined = @ + 1, !.counters = [@ EXCEPT ![k].value = v],
                  !.active = IF v > m.counters[k].top THEN @ \ {k} ELSE @]

\* _next_state, and the count of what was minted.
Step(m, k) ==
    LET v == m.counters[k].value + 1
    IN  [m EXCEPT !.combined = @ + 1, !.counters = [@ EXCEPT ![k].value = v],
                  !.active = IF v >= m.counters[k].top THEN @ \ {k} ELSE @]

\* Mutant: the ranges of the counters overlap.
CompoundedCounterOverlapping(m, k) ==
    m.counters[k].value + k * (m.perCounter - 1)

\* What _next_state returns for a counter that was stepped.
CompoundedCounter(m, k) == m.counters[k].value + k * m.perCounter

\* _get_xdig_str: the number in the digits of the mask, its overflow dropped.
xdigs(mask, n) ==
    [i \in DOMAIN mask |->
        (n \div Weight(mask, (i + 1)..Len(mask))) % base(mask[i])]

\* The row mint works on: extended first if it is exhausted.
Ready(m) == IF Exhausted(m) THEN Extended(m, AddCount) ELSE m

\* The assertions of mint, and of _extend_template.
MayMint(m) == m.combined <= m.total /\ (Exhausted(m) => m.active = {})

\* A mint whose transaction fails leaves the row alone and is not counted here,
\* although mint_id returns the identifier it would have had.
Mint ==
    /\ MayMint(minter)
    /\ Len(Ready(minter).mask) <= MaxLength
    /\ \E k \in Ready(minter).active :
          /\ minter' = Step(Ready(minter), k)
          /\ minted' = minted \union
                         {[mask |-> minter'.mask, number |-> CompoundedCounter(minter', k)]}

Spec == Init /\ [][Mint]_vars

-----------------------------------------------------------------------------
(* Properties *)

RowFine(m) ==
    LET counters == m.counters
    IN  /\ m.mask \in Masks \ {<<>>}
        /\ m.baseCount \in Nat
        /\ m.combined \in Nat
        /\ m.total = MaxCount(m.mask)
        /\ m.perCounter = PerCounter(m.total)
        /\ DOMAIN counters \subseteq 0..m.total
        /\ counters \in [DOMAIN counters -> [top: 1..m.perCounter, value: 0..m.perCounter]]
        /\ \A k \in DOMAIN counters : counters[k].value <= counters[k].top
        /\ m.active = {k \in DOMAIN counters : counters[k].value < counters[k].top}

\* The row has the types of the code's, and its parts agree: the total is the
\* mask's, the active counters are those that have not reached their top, and
\* no counter reaches beyond its range.
RowOK == RowFine(minter) /\ minted \subseteq [mask: Masks, number: Nat]

\* No number is dealt out twice under the same mask, however the generator
\* jumps among the counters and however often the template is extended: every
\* mint adds to what was minted.
MintedOnce == [][ \E m \in minted' : m \notin minted ]_vars

Strings(S) == {xdigs(m.mask, m.number) : m \in S}

\* The minter can always go on: a template that is due to be extended passes
\* the assertions of _assert_exhausted_minter, and before that there is a
\* counter to step.  Otherwise every later mint on the shoulder would fail.
NeverStuck ==
    /\ minter.combined <= minter.total
    /\ Exhausted(minter) <=> minter.active = {}

\* Before its template is extended a minter has given every string of the mask.
EveryStringMinted ==
    Exhausted(minter) =>
        LET mask == minter.mask
        IN  Strings({m \in minted : m.mask = mask}) =
              {d \in [DOMAIN mask -> 0..(AlphaCount + DigitCount)] :
                  \A i \in DOMAIN mask : d[i] < base(mask[i])}
=============================================================================
