----------------------------- MODULE SharedClocks -----------------------------
(***************************************************************************)
(* The audio PLL that peripherals share                                    *)
(* (components/esp_hw_support/clk_ctrl_os.c).  A user acquires it, may ask *)
(* for a frequency, and releases it.  Whether the frequency may change is   *)
(* decided under a spinlock; the coefficients are written to the hardware   *)
(* after the spinlock is given up, so other users' calls fall in between.   *)
(***************************************************************************)
EXTENDS Integers, FiniteSets

CONSTANTS
    Users,      \* peripheral drivers; each makes its calls one at a time
    Freqs,      \* frequencies for which there are coefficients
    None        \* not a frequency

ClocksAssumption ==
    /\ Freqs \subseteq Nat \ {0}
    /\ None \notin Freqs
    /\ IsFiniteSet(Users)

VARIABLES
    ref,      \* s_apll_ref_cnt
    cur,      \* s_cur_apll_freq; 0 when none is set
    on,       \* the power of the PLL
    coeff,    \* the frequency its coefficients stand for
    holders,  \* history: users that have acquired it
    setting,  \* per user, the frequency it is about to set, or None
    told      \* history: per holder, the frequency it was told last

vars == <<ref, cur, on, coeff, holders, setting, told>>

Init ==
    /\ ref = 0
    /\ cur = 0
    /\ on = FALSE
    /\ coeff = None
    /\ holders = {}
    /\ setting = [u \in Users |-> None]
    /\ told = [u \in Users |-> None]

-----------------------------------------------------------------------------
\* periph_rtc_apll_acquire.
Acquire(u) ==
    /\ u \notin holders
    /\ holders' = holders \cup {u}
    /\ ref' = ref + 1
    /\ on' = (ref = 0 \/ on)
    /\ UNCHANGED <<cur, coeff, setting, told>>

\* periph_rtc_apll_release.
Release(u) ==
    /\ u \in holders
    /\ setting[u] = None
    /\ holders' = holders \ {u}
    /\ told' = [told EXCEPT ![u] = None]
    /\ ref' = ref - 1
    /\ IF ref = 1 THEN cur' = 0 /\ on' = FALSE ELSE UNCHANGED <<cur, on>>
    /\ UNCHANGED <<coeff, setting>>

\* Mutant: with two users the frequency may still be changed.
MayChangeLate == cur = 0 \/ ref < 3

\* The frequency is not set yet, or the caller is the only user.
MayChange == cur = 0 \/ ref < 2

\* periph_rtc_apll_freq_set: its critical section, after which the caller is
\* told the frequency ...
Decide(u, f) ==
    /\ u \in holders
    /\ setting[u] = None
    /\ IF MayChange
       THEN /\ cur' = f
            /\ setting' = [setting EXCEPT ![u] = f]
            /\ told' = [told EXCEPT ![u] = f]
       ELSE /\ told' = [told EXCEPT ![u] = cur]
            /\ UNCHANGED <<cur, setting>>
    /\ UNCHANGED <<ref, on, coeff, holders>>

\* ... and rtc_clk_apll_coeff_set.
SetCoefficients(u) ==
    /\ setting[u] # None
    /\ coeff' = setting[u]
    /\ setting' = [setting EXCEPT ![u] = None]
    /\ UNCHANGED <<ref, cur, on, holders, told>>

Next ==
    \E u \in Users :
        \/ Acquire(u) \/ Release(u) \/ SetCoefficients(u)
        \/ \E f \in Freqs : Decide(u, f)

Spec == Init /\ [][Next]_vars

-----------------------------------------------------------------------------
\* Types of the state of the shared PLL.
TypeOK ==
    /\ ref \in Nat
    /\ cur \in Freqs \cup {0}
    /\ on \in BOOLEAN
    /\ coeff \in Freqs \cup {None}
    /\ holders \subseteq Users
    /\ setting \in [Users -> Freqs \cup {None}]
    /\ told \in [Users -> Freqs \cup {None}]

\* Nobody's frequency changes under it: what a user was told is, as long as it
\* holds the PLL, the recorded frequency, whatever the others ask for; and once
\* no user is between its decision and its write, the hardware, which has
\* power, runs at that frequency.
FrequencyKept ==
    /\ \A u \in holders : on /\ told[u] \in {None, cur}
    /\ cur # 0 /\ (\A u \in Users : setting[u] = None) => coeff = cur
=============================================================================
