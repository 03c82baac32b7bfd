----------------------------- MODULE TimeWindows -----------------------------
(***************************************************************************)
(* pkg/timeutil/timewindow.go: the loop over the windows of a time range,    *)
(* with a WindowIterator (Next, Window, Advance) or in HourlyBuckets and     *)
(* DailyBuckets.  Times are integers, one apart a nanosecond; every location *)
(* has a fixed offset, that of the hours and the days.                      *)
(***************************************************************************)
EXTENDS Integers

CONSTANTS
    Moments,    \* the times that ranges may begin and end at
    Sizes       \* the sizes that windows may have

ASSUME WindowsAssumption == Moments \subseteq Int /\ Sizes \subseteq Nat \ {0}

VARIABLES
    range,      \* the TimeRange
    size,       \* windowSize
    aligned,    \* HourlyBuckets or DailyBuckets, and no iterator
    current,    \* the start of the next window
    done,       \* the loop is over
    windows     \* the windows so far

windowVars == <<range, size, aligned, current, done, windows>>

-----------------------------------------------------------------------------
(* TimeWindow and TimeRange.                                               *)

NewTimeWindow(start, length) == [start |-> start, end |-> start + length]

\* The end of a window is exclusive.
WindowContains(w, t) == ~(t < w.start) /\ t < w.end

WindowsOverlap(v, w) == v.start < w.end /\ w.start < v.end

\* The end of a range is inclusive.
RangeContains(r, t) == ~(t < r.from) /\ ~(t > r.to)

-----------------------------------------------------------------------------
\* The start of the hour or of the day that t is in.
StartOf(t, length) == t - (t % length)

\* NewWindowIterator starts at the range's start, buckets at the start of its
\* hour or day.
WindowsInit ==
    /\ range \in [from : Moments, to : Moments]
    /\ size \in Sizes
    /\ aligned \in BOOLEAN
    /\ current = IF aligned THEN StartOf(range.from, size) ELSE range.from
    /\ done = FALSE
    /\ windows = {}

\* Mutant: the last window ends at the range's end, which is inclusive.
WindowShort ==
    IF current + size > range.to THEN [start |-> current, end |-> range.to]
                                 ELSE NewTimeWindow(current, size)

\* Window: the last one is cut off a nanosecond after the range's end, and its
\* Size is not.
Window ==
    IF current + size > range.to THEN [start |-> current, end |-> range.to + 1]
                                 ELSE NewTimeWindow(current, size)

\* Next, Window and Advance; or one round of the loop over the buckets.
NextWindow ==
    /\ ~done
    /\ ~(current > range.to)
    /\ windows' = windows \cup {IF aligned THEN NewTimeWindow(current, size) ELSE Window}
    /\ current' = current + size
    /\ UNCHANGED <<range, size, aligned, done>>

\* Next returns false.
Exhausted ==
    /\ ~done
    /\ current > range.to
    /\ done' = TRUE
    /\ UNCHANGED <<range, size, aligned, current, windows>>

WindowsNext == NextWindow \/ Exhausted

WindowsSpec == WindowsInit /\ [][WindowsNext]_windowVars

-----------------------------------------------------------------------------
(* Properties.                                                             *)

WindowsTypeOK ==
    /\ range \in [from : Moments, to : Moments]
    /\ size \in Sizes
    /\ aligned \in BOOLEAN
    /\ current \in Int
    /\ done \in BOOLEAN
    /\ windows \subseteq [start : Int, end : Int]

\* The windows so far do not overlap, and have every moment of the range before
\* the current one; an iterator's have no other (timewindow.go:98-151).
WindowsPartition ==
    /\ \A v, w \in windows : WindowsOverlap(v, w) => v = w
    /\ \A t \in Moments : RangeContains(range, t) /\ (t < current \/ done) =>
          \E w \in windows : WindowContains(w, t)
    /\ \A t \in Moments, w \in windows :
          ~aligned /\ WindowContains(w, t) => RangeContains(range, t)
=============================================================================
