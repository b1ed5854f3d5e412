---------------------------- MODULE MCLkDevices ----------------------------
(***************************************************************************)
(* The boot loader's device drivers on small instances: a behaviour is     *)
(* about one of them, chosen in the initial state.                         *)
(***************************************************************************)
EXTENDS LkFastboot, LkUsbc, LkBus, LkCopro, LkDsi, LkPanel, LkIrq

MCTexts == {<<"a">>, <<"NL">>, <<"a", "b", "NL">>}

MCFrame == [w |-> 4, h |-> 3, hfp |-> 2, hbp |-> 1, vfp |-> 0, vbp |-> 2, hpw |-> 1, vpw |-> 1]

Init == \/ FastbootInit \/ UsbcInit \/ BusInit \/ CoproInit \/ DsiInit \/ PanelInit
        \/ IrqInit \/ TimerInit

Next == \/ FastbootNext \/ UsbcNext \/ BusNext \/ CoproNext \/ DsiNext \/ PanelNext
        \/ IrqNext \/ TimerNext \/ Again

\* The code runs on, and the device, the remote processor or the display
\* engine does what it was started for; the QUP's output is drained though
\* writing to it may be possible only now and then.
Fairness == /\ FastbootFairness
            /\ WF_vars(Called /\ (BusCode \/ CoproCode \/ DsiCode \/ PanelCode))
            /\ WF_vars(Called /\ (BusHardware \/ CoproHardware \/ DsiHardware \/ PanelHardware))
            /\ SF_vars(QupShift)

Spec == Init /\ [][Next]_vars /\ Fairness
=============================================================================
