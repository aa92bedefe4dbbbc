SPECIFICATION MCSpec
CONSTANTS
  Call = {c1, c2, c3} MaxValues = 3
  StreamThrows = {"onSubscribe", "onNext", "onComplete"}
  SingleThrows = {"onSubscribe", "onComplete", "onError"}
INVARIANTS CountedOnceAsTold ObserversAgree SinglesAccounted
PROPERTY SpansFinish
CHECK_DEADLOCK FALSE
