---------------------------- MODULE MCGetterGatt ----------------------------
(* Peripherals for GetterGatt. *)
EXTENDS GetterGatt

Layouts == {k \in [Handle -> ServiceType \cup {"char", "value", "gap"}] : Layout(k)}

(* The services have short UUIDs or long ones. *)
WideOf(k) == {{}, {h \in Handle : k[h] \in ServiceType}}

Peripherals(layouts) ==
    UNION {[kind: {k}, wide: WideOf(k), open: BOOLEAN, skips: BOOLEAN,
            slow: {{}}, loses: {{}}] : k \in layouts}

(* One service with a characteristic. *)
One == <<"primary", "char", "value", "value", "gap">>

Plain(k) == [kind |-> k, wide |-> {}, open |-> FALSE, skips |-> TRUE,
             slow |-> {}, loses |-> {}]

OnePrimary == {Plain(One)}

SlowReads == {[Plain(One) EXCEPT !.slow = {"read"}]}

LosesFindInfo == {[Plain(One) EXCEPT !.loses = {"FIND_INFO"}]}

(* The first handle that is not a service is no characteristic: those are   *)
(* asked for.                                                               *)
NoCharacteristic == {Plain(<<"primary", "value", "gap", "gap", "gap">>)}

(* Peripherals that are late with everything, and lose anything but         *)
(* ATT_FIND_INFORMATION_REQ.                                                *)
Disturbed ==
    {[p EXCEPT !.slow = Timer, !.loses = RequestOp \ {"FIND_INFO"}] :
        p \in OnePrimary \cup NoCharacteristic}

All == Peripherals(Layouts) \cup Disturbed

WithSecondary ==
    {[Plain(<<"primary", "char", "value", "secondary", "gap">>) EXCEPT !.slow = {"primary"}]}

OpenSecondary == {[Plain(<<"primary", "char", "value", "secondary", "gap">>) EXCEPT !.open = TRUE]}

WideSecondary == {[Plain(<<"primary", "char", "value", "secondary", "gap">>) EXCEPT !.wide = {4}]}

OpenPrimary == {[Plain(<<"secondary", "secondary", "primary", "value", "gap">>) EXCEPT !.open = TRUE]}

NoPrimary == {Plain(<<"gap", "gap", "gap", "gap", "gap">>)}

Doubtful ==
    SlowReads \cup WithSecondary \cup OpenSecondary \cup WideSecondary
        \cup OpenPrimary \cup NoPrimary
=============================================================================
