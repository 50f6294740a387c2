SPECIFICATION Spec
CONSTANTS
  Lines <- WireLines
  StaleBytes <- WireStale
  NoiseBytes <- WireNoise
  MaxGarbled = 1
INVARIANTS TypeOK RoundTrip SingleGarbleCaught TextArrives
