--------------------------------- MODULE Ffi ---------------------------------
(***************************************************************************)
(* The C interface: threads of a C program call stillcast_expand, ask for  *)
(* the last error and free what they were given.  Memory is addresses that *)
(* an allocator hands out again once they are free, so that a pointer kept *)
(* too long shows something else, not nothing.                             *)
(*                                                                         *)
(* The C program keeps the header's contract: a pointer to an error is     *)
(* given up before its thread calls again or ends, a buffer is freed once, *)
(* with the length it came with, by whichever thread.                      *)
(***************************************************************************)
EXTENDS Naturals

CONSTANTS
    Threads,
    Buffers,  \* addresses of output buffers
    Strings,  \* addresses of error strings
    Lens,     \* lengths an output may have
    Null, Free

Failures == {"null argument", "refused", "panic"}
Messages == [by : Threads, what : Failures]

ASSUME FfiAssumption == /\ Null \notin Strings
                        /\ Lens \subseteq Nat \ {0}
                        /\ Free \notin Lens \cup Messages

VARIABLES
    at,         \* what each thread is in: caller, expand, ended
    args,       \* which pointers of its call are NULL
    outcome,    \* how its last finished call ended
    lastError,  \* its LAST_ERROR
    cstr,       \* what lies at the addresses of strings
    heap,       \* the length of the box at each address, or Free
    outLen,     \* the caller's variable behind out_len
    errPtr,     \* the pointer to an error it holds
    held        \* the buffers the program holds, with their lengths

ffiVars == <<at, args, outcome, lastError, cstr, heap, outLen, errPtr, held>>

FfiTypeOK ==
    /\ at \in [Threads -> {"caller", "expand", "ended"}]
    /\ args \in [Threads -> [input : BOOLEAN, out_len : BOOLEAN]]
    /\ outcome \in [Threads -> Failures \cup {"none", "ok"}]
    /\ lastError \in [Threads -> Strings \cup {Null}]
    /\ cstr \in [Strings -> Messages \cup {Free}]
    /\ heap \in [Buffers -> Lens \cup {Free}]
    /\ outLen \in [Threads -> Nat]
    /\ errPtr \in [Threads -> Strings \cup {Null}]
    /\ held \in SUBSET (Buffers \X Lens)

FfiInit ==
    /\ at = [t \in Threads |-> "caller"]
    /\ args = [t \in Threads |-> [input |-> TRUE, out_len |-> TRUE]]
    /\ outcome = [t \in Threads |-> "none"]
    /\ lastError = [t \in Threads |-> Null]
    /\ cstr = [s \in Strings |-> Free]
    /\ heap = [b \in Buffers |-> Free]
    /\ outLen = [t \in Threads |-> 0]
    /\ errPtr = [t \in Threads |-> Null]
    /\ held = {}

\* The thread's string is dropped.
Dropped(t) == [s \in Strings |-> IF s = lastError[t] THEN Free ELSE cstr[s]]

\* Slip: an error that is there already stays.
Slip_set_last_error(t, what) ==
    IF lastError[t] # Null THEN UNCHANGED <<cstr, lastError>>
    ELSE \E s \in Strings :
           /\ cstr[s] = Free
           /\ cstr' = [cstr EXCEPT ![s] = [by |-> t, what |-> what]]
           /\ lastError' = [lastError EXCEPT ![t] = s]

\* The new string is made before the old one is dropped.
set_last_error(t, what) ==
    \E s \in Strings :
        /\ cstr[s] = Free
        /\ cstr' = [Dropped(t) EXCEPT ![s] = [by |-> t, what |-> what]]
        /\ lastError' = [lastError EXCEPT ![t] = s]

clear_last_error(t) ==
    /\ cstr' = Dropped(t)
    /\ lastError' = [lastError EXCEPT ![t] = Null]

\* Entering stillcast_expand: *out_len is 0 from here on.  The content of
\* out_len is whatever the caller had there before.
Call(t) == \E input, out_len \in BOOLEAN, before \in Lens :
    /\ at[t] = "caller"
    /\ at' = [at EXCEPT ![t] = "expand"]
    /\ args' = [args EXCEPT ![t] = [input |-> input, out_len |-> out_len]]
    /\ outLen' = [outLen EXCEPT ![t] = IF out_len THEN 0 ELSE before]
    /\ errPtr' = [errPtr EXCEPT ![t] = Null]
    /\ UNCHANGED <<outcome, lastError, cstr, heap, held>>

Ended(t, how) == /\ at' = [at EXCEPT ![t] = "caller"]
                 /\ outcome' = [outcome EXCEPT ![t] = how]

\* Slip: the call returns without a message.
Slip_Failing(t, how) ==
    /\ Ended(t, how)
    /\ UNCHANGED <<args, lastError, cstr, heap, outLen, errPtr, held>>

\* A call that fails returns NULL.
Failing(t, how) ==
    /\ Ended(t, how)
    /\ set_last_error(t, how)
    /\ UNCHANGED <<args, heap, outLen, errPtr, held>>

NullArgument(t) == /\ at[t] = "expand"
                   /\ ~args[t].input \/ ~args[t].out_len
                   /\ Failing(t, "null argument")

Valid(t) == at[t] = "expand" /\ args[t].input /\ args[t].out_len

\* expand_ivf refuses its input, or panics within it.
Refused(t) == Valid(t) /\ Failing(t, "refused")
Panicked(t) == Valid(t) /\ Failing(t, "panic")

\* Slip: the box is dropped on the way out.
Slip_HandOut(t, b, len) ==
    /\ outLen' = [outLen EXCEPT ![t] = len]
    /\ UNCHANGED heap
    /\ held' = held \cup {<<b, len>>}

\* The box is forgotten, and pointer and length are what is left of it.
HandOut(t, b, len) ==
    /\ outLen' = [outLen EXCEPT ![t] = len]
    /\ heap' = [heap EXCEPT ![b] = len]
    /\ held' = held \cup {<<b, outLen'[t]>>}

Expanded(t) == \E b \in Buffers, len \in Lens :
    /\ Valid(t) /\ heap[b] = Free
    /\ HandOut(t, b, len)
    /\ clear_last_error(t)
    /\ Ended(t, "ok")
    /\ UNCHANGED <<args, errPtr>>

stillcast_last_error(t) ==
    /\ at[t] = "caller"
    /\ errPtr' = [errPtr EXCEPT ![t] = lastError[t]]
    /\ UNCHANGED <<at, args, outcome, lastError, cstr, heap, outLen, held>>

stillcast_free(t) == \E h \in held :
    /\ at[t] = "caller"
    /\ held' = held \ {h}
    /\ heap' = [heap EXCEPT ![h[1]] = Free]
    /\ UNCHANGED <<at, args, outcome, lastError, cstr, outLen, errPtr>>

\* A thread that ends takes its LAST_ERROR along.
ThreadEnds(t) ==
    /\ at[t] = "caller"
    /\ at' = [at EXCEPT ![t] = "ended"]
    /\ errPtr' = [errPtr EXCEPT ![t] = Null]
    /\ clear_last_error(t)
    /\ UNCHANGED <<args, outcome, heap, outLen, held>>

FfiNext == \E t \in Threads :
    \/ Call(t) \/ NullArgument(t) \/ Refused(t) \/ Panicked(t) \/ Expanded(t)
    \/ stillcast_last_error(t) \/ stillcast_free(t) \/ ThreadEnds(t)

FfiSpec == FfiInit /\ [][FfiNext]_ffiVars

-----------------------------------------------------------------------------

(***************************************************************************)
(* A pointer to an error that a thread may still use shows the message of  *)
(* its own last call: never another thread's, an earlier call's or memory  *)
(* that was given away (ffi.rs 21-23 "valid until the next stillcast call  *)
(* on the same thread").                                                   *)
(***************************************************************************)
ErrorIsOwnLast ==
    \A t \in Threads : errPtr[t] # Null =>
        cstr[errPtr[t]] = [by |-> t, what |-> outcome[t]]

(***************************************************************************)
(* The boxes alive are exactly the buffers the program holds, each with    *)
(* the length that frees it: none leaks, none is held that is gone, and no *)
(* address is handed out twice (ffi.rs 65-72, 92-96).                      *)
(***************************************************************************)
BuffersHeldOnce ==
    held = {<<b, heap[b]>> : b \in {c \in Buffers : heap[c] # Free}}

(***************************************************************************)
(* Back from a call, a thread has an error exactly when the call failed,   *)
(* and the length behind out_len is then 0 where there is one (ffi.rs      *)
(* 21-22 "or NULL when the last call succeeded", 34 "or NULL on error").   *)
(***************************************************************************)
FailureIsTold ==
    \A t \in Threads : at[t] = "caller" =>
        /\ lastError[t] # Null <=> outcome[t] \in Failures
        /\ outcome[t] \in Failures /\ args[t].out_len => outLen[t] = 0

(***************************************************************************)
(* What makes the three inductive: LAST_ERROR and the pointer that was     *)
(* read from it, in a call and between calls.                              *)
(***************************************************************************)
ErrorKept ==
    \A t \in Threads :
        /\ lastError[t] # Null => /\ outcome[t] \in Failures
                                  /\ cstr[lastError[t]] = [by |-> t, what |-> outcome[t]]
        /\ errPtr[t] # Null => errPtr[t] = lastError[t]
        /\ at[t] = "expand" => errPtr[t] = Null
        /\ at[t] = "expand" /\ args[t].out_len => outLen[t] = 0

=============================================================================
