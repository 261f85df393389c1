CONSTANTS
    Publishers = {"p1", "p2"}
    Consumers = {"c1", "c2"}
    Topics = {"a", "b"}
    Script <- MCScript
    TopicOf <- MCTopicOf
    Unsubscribes = {"c1", "c2"}
    Late = {"c2"}
    Admin <- MCAdmin
    Ordering = "priority"
    NoOne = NoOne
    NoMsg = NoMsg
SPECIFICATION Spec
INVARIANT NoLossNoDup
PROPERTY UnsubscribeReturns
