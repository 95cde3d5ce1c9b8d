---------------------------- MODULE MCSubscription ----------------------------
\* Constants for model checking SubscriptionBilling.
EXTENDS SubscriptionBilling

\* Two requests and one fault, beside what the scheduler does.
OneFault == [requests |-> 2, faults |-> 1]

\* Only the scheduler, and nothing fails.
SchedulerOnly == [requests |-> 0, faults |-> 0]
=============================================================================
