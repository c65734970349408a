------------------------------ MODULE MCWidgetBridge ------------------------------
EXTENDS WidgetBridge

\* One tool whose views are listed and one that takes every view.
MCEmits == [tool \in Tools |-> IF tool = "get_swap_quote" THEN {"swap-quote"}
                               ELSE {"transfer-preview"}]
===================================================================================
