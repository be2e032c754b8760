CONSTANTS
    fa = fa
    fb = fb
    NoBlock = NoBlock
    Forks <- MCForks
    ForkAt <- MCForkAt
    MaxHeight <- MCMaxHeight
SPECIFICATION CSpec
INVARIANT AnswersDescribeOneChain
